---- MODULE Spec2Model ----
(***************************************************************************)
(* Model of the NFC cassette cover generator                               *)
(* (src/nfc-cassette-cover-generator/nfc-cassette-cover-generator.py):     *)
(* the image fitting functions, the poster crop, the text layout, render,  *)
(* and the asset-loading handlers of CassetteApp.                          *)
(*                                                                         *)
(* Images are modelled by their size, their decodability and the identity  *)
(* of the object; pixels are not modelled.  Python float arithmetic is     *)
(* modelled exactly as IEEE-754 binary64 (see FloatMulDivInt).             *)
(***************************************************************************)
EXTENDS Integers, Sequences, FiniteSets, TLC

\* ------------------------------------------------------------------------
\* LOCKED PIXEL DIMENSIONS (lines 51-85)
\* ------------------------------------------------------------------------
CARD_W == 1629
CARD_H == 1600
BACK_W == 403
SPINE_W == 199
FRONT_W == 1027
FRONT_X == BACK_W + SPINE_W
BANNER_H == 165
POSTER_H == 1435
PADDING == 16
NFC_MARGIN == 30
NFC_FRONT_MAX == <<360, 150>>
NFC_SPINE_MAX == <<270, 150>>
NFC_BACK_MAX == <<300, 100>>
TITLE_LOGO_BACK_MAX == <<375, 180>>
TITLE_LOGO_SPINE_MAX == <<183, 520>>
SCREENSHOT_MAX == <<350, 420>>
ORIGINAL_COVER_BACK_MAX == <<320, 320>>
SYSTEM_LOGO_FRONT_MAX == <<360, 100>>
SYSTEM_LOGO_SPINE_MAX == <<120, 300>>
SYSTEM_LOGO_BACK_MAX == <<300, 100>>
BACK_GAP == 30
\* the range of the crop slider (ttk.Scale from_=0, to=1000)
SLIDER_MAX == 1000

\* ------------------------------------------------------------------------
\* Bounds of the model
\* ------------------------------------------------------------------------
\* image dimensions drawn for the fitting functions: 1..MaxSmallDim and the
\* multiples DimStep, 2*DimStep, ..., MaxDimK*DimStep
MaxSmallDim == 3
DimStep == 50
MaxDimK == 30
\* target boxes drawn for fit_fill besides FRONT_W x POSTER_H: 1..MaxSmallBox squared
MaxSmallBox == 2
\* slider positions drawn for the manual crop: multiples of SLIDER_MAX \div SliderSteps
SliderSteps == 4
\* texts drawn for the text layout: at most MaxTextLen characters
MaxTextLen == 4
\* text boxes drawn for the text layout: 1..MaxBoxWidth wide, and high enough for
\* one to MaxBoxLines whole lines plus a part of the next
MaxBoxWidth == 5
MaxBoxLines == 2

\* ------------------------------------------------------------------------
\* Images (PIL.Image objects)
\* ------------------------------------------------------------------------
\* An empty asset slot (Python None).
None == [none |-> TRUE]

IsImage(x) == "w" \in DOMAIN x

\* A decoded or lazily opened image object: size, whether its pixel data can be
\* decoded (Image.load succeeds), and the identity of the object.
Image(w, h, ok, id) == [w |-> w, h |-> h, ok |-> ok, id |-> id]

\* The result of a call that returns an image or raises, together with the state
\* in which the call leaves the object passed as its argument.
Returned(img, arg) == [exc |-> "", ret |-> img, arg |-> arg]
Raised(e, arg) == [exc |-> e, ret |-> None, arg |-> arg]

\* ------------------------------------------------------------------------
\* Python float arithmetic: int(a * (t / i)) for integers a, t >= 0, i > 0,
\* as computed in IEEE-754 binary64 with round-to-nearest-even.
\* ------------------------------------------------------------------------
RECURSIVE Pow2(_)
Pow2(n) == IF n <= 0 THEN 1 ELSE 2 * Pow2(n - 1)

RECURSIVE FloorLog2(_)
FloorLog2(n) == IF n < 2 THEN 0 ELSE 1 + FloorLog2(n \div 2)

\* the least k >= 0 with t * 2^k >= i
RECURSIVE ShiftsToReach(_, _)
ShiftsToReach(t, i) == IF t >= i THEN 0 ELSE 1 + ShiftsToReach(2 * t, i)

\* (x * 2^n) mod m, eight doublings at a time
RECURSIVE DoubleMod(_, _, _)
DoubleMod(x, n, m) ==
  IF n = 0 THEN x % m
  ELSE IF n >= 8 THEN DoubleMod((256 * (x % m)) % m, n - 8, m)
  ELSE DoubleMod((2 * x) % m, n - 1, m)

\* The binary exponent g of the quotient t / i: 2^g <= t/i < 2^(g+1).
QuotientExponent(t, i) == IF t >= i THEN FloorLog2(t \div i) ELSE 0 - ShiftsToReach(t, i)

\* Round to nearest, ties to even: the signed remainder for the remainder r of
\* the truncated significand (odd tells whether that significand is odd).
NearestEven(i, r, odd) ==
  IF 2 * r < i THEN r
  ELSE IF 2 * r > i THEN r - i
  ELSE IF odd THEN 0 - r ELSE r

\* The signed remainder left by rounding t / i to a 53-bit significand m:
\* t * 2^e = m * i + r with e = 52 - g, m the nearest integer (ties to even).
\* r > 0 means the stored quotient is smaller than t / i.
DivisionRemainder(t, i) ==
  NearestEven(i, DoubleMod(t % i, 52 - QuotientExponent(t, i), i),
              DoubleMod(t % (2 * i), 52 - QuotientExponent(t, i), 2 * i) >= i)

RECURSIVE GCD(_, _)
GCD(a, b) == IF b = 0 THEN a ELSE GCD(b, a % b)

\* Whether the double a * q lies below the integer N = a*t/i, for the double
\* q = t/i with binary exponent g and signed remainder r, and L = floor(log2 N):
\* the deficit a*r/(i*2^(52-g)) exceeds half the spacing of the doubles just
\* below N (2^(L-52), or 2^(L-53) when N is a power of two).
ProductBelow(a, i, N, g, r, L) ==
  /\ N # 0
  /\ r > 0
  /\ (IF Pow2(L) = N THEN 4 ELSE 2) * a * r * (IF g >= 0 THEN Pow2(g) ELSE 1)
       > i * Pow2(L) * (IF g >= 0 THEN 1 ELSE Pow2(0 - g))

\* int(a * (t / i)): t / i is rounded to binary64, the product is rounded to
\* binary64, int() truncates.  When a*t/i is not an integer the rounding errors
\* (relative 2^-52) cannot cross an integer for the sizes used here, so the
\* result is the exact floor.  When a*t/i = N is an integer the product falls
\* below N when ProductBelow holds; int() then yields N - 1.
FloatMulDivReduced(a, t, i) ==
  IF (a * t) % i = 0
     /\ ProductBelow(a, i, (a * t) \div i, QuotientExponent(t, i),
                     DivisionRemainder(t, i), FloorLog2((a * t) \div i))
  THEN (a * t) \div i - 1
  ELSE (a * t) \div i

\* t / i and its reduced fraction are the same real number, hence the same double.
FloatMulDivInt(a, t, i) == FloatMulDivReduced(a, t \div GCD(t, i), i \div GCD(t, i))

\* int(a * (t / i)) for a of either sign (int() truncates toward zero)
FloatMulDivIntSigned(a, t, i) ==
  IF a >= 0 THEN FloatMulDivInt(a, t, i) ELSE 0 - FloatMulDivInt(0 - a, t, i)

\* ------------------------------------------------------------------------
\* PIL operations used by the program
\* ------------------------------------------------------------------------
\* Image.resize((w, h)): decodes the image, raises ValueError ("height and
\* width must be > 0") for an empty target, returns a new image object.
resize(img, w, h) ==
  IF ~img.ok THEN Raised("OSError", img)
  ELSE IF w < 1 \/ h < 1 THEN Raised("ValueError", img)
  ELSE Returned(Image(w, h, TRUE, "derived"), img)

\* Image.copy(): decodes the image and returns a new object of the same size.
copy(img) ==
  IF ~img.ok THEN Raised("OSError", img)
  ELSE Returned(Image(img.w, img.h, TRUE, "derived"), img)

\* Image.rotate(-90, expand=True): a new image with width and height swapped.
rotate90(img) ==
  IF ~img.ok THEN Raised("OSError", img)
  ELSE Returned(Image(img.h, img.w, TRUE, "derived"), img)

\* Image.crop((left, top, right, bottom)): a new image of size
\* (right - left) x (bottom - top), whatever part of it lies inside the source.
crop(img, left, top, right, bottom) ==
  Image(right - left, bottom - top, TRUE, "derived")

\* ------------------------------------------------------------------------
\* Image fitting library (lines 120-153)
\* ------------------------------------------------------------------------
\* min(max_w / iw, max_h / ih) as the fraction <<numerator, denominator>>:
\* the two quotients compare as floats the way they compare as rationals.
MinScale(iw, ih, max_w, max_h) ==
  IF max_w * ih <= max_h * iw THEN <<max_w, iw>> ELSE <<max_h, ih>>

\* max(w / iw, h / ih) as the fraction <<numerator, denominator>>
MaxScale(iw, ih, w, h) ==
  IF w * ih >= h * iw THEN <<w, iw>> ELSE <<h, ih>>

\* img.resize((int(iw * scale), int(ih * scale)), Image.LANCZOS) for the scale
\* s[1] / s[2], lines 126-130 (and 150-152, 1306-1309)
Scaled(img, s) ==
  resize(img, FloatMulDivInt(img.w, s[1], s[2]), FloatMulDivInt(img.h, s[1], s[2]))

\* the object left behind when the resize r replaces the pixels of img itself
ResizedInPlace(img, r) ==
  IF r.exc = "" THEN Returned(r.ret, [img EXCEPT !.w = r.ret.w, !.h = r.ret.h]) ELSE r

\* fit_image, lines 120-131, without the copy: the image passed in is resized
fit_image_in_place(img, max_w, max_h) ==
  IF ~img.ok THEN Raised("OSError", img)
  ELSE IF img.w > max_w \/ img.h > max_h
  THEN ResizedInPlace(img, Scaled(img, MinScale(img.w, img.h, max_w, max_h)))
  ELSE Returned(img, img)

\* fit_image(img, max_w, max_h), lines 120-131
fit_image(img, max_w, max_h) ==
  IF ~img.ok THEN copy(img)
  ELSE IF img.w > max_w \/ img.h > max_h
  THEN Scaled(img, MinScale(img.w, img.h, max_w, max_h))
  ELSE copy(img)

\* The crop window of a fill: the scaled size, the crop origin and the result.
CropResult(scaled, left, top, w, h, arg) ==
  [exc |-> "", ret |-> crop(scaled, left, top, left + w, top + h), arg |-> arg,
   new_w |-> scaled.w, new_h |-> scaled.h, left |-> left, top |-> top]

CropRaised(e, arg) ==
  [exc |-> e, ret |-> None, arg |-> arg,
   new_w |-> 0, new_h |-> 0, left |-> 0, top |-> 0]

\* lines 151-153: the centred crop of the resized image r
CenterCrop(r, w, h) ==
  IF r.exc # "" THEN CropRaised(r.exc, r.arg)
  ELSE CropResult(r.ret, (r.ret.w - w) \div 2, (r.ret.h - h) \div 2, w, h, r.arg)

\* fit_fill(img, w, h), lines 147-153
fit_fill(img, w, h) == CenterCrop(Scaled(img, MaxScale(img.w, img.h, w, h)), w, h)

\* the crop origin with the two edge modes exchanged
CropOriginEdgesSwapped(overflow, mode, offset) ==
  CASE mode = "center" -> overflow \div 2
    [] mode = "top" -> overflow
    [] mode = "bottom" -> 0
    [] OTHER -> FloatMulDivIntSigned(overflow, offset, SLIDER_MAX)

\* lines 1317-1325 and 1333-1341: the crop origin along the overflow axis
CropOrigin(overflow, mode, offset) ==
  CASE mode = "center" -> overflow \div 2
    [] mode = "top" -> 0
    [] mode = "bottom" -> overflow
    [] OTHER -> FloatMulDivIntSigned(overflow, offset, SLIDER_MAX)

\* lines 1311-1345: the crop of the resized poster r
CropWindow(r, landscape, target_w, target_h, mode, offset) ==
  IF r.exc # "" THEN CropRaised(r.exc, r.arg)
  ELSE IF landscape
  THEN CropResult(r.ret, CropOrigin(r.ret.w - target_w, mode, offset),
                  (r.ret.h - target_h) \div 2, target_w, target_h, r.arg)
  ELSE CropResult(r.ret, (r.ret.w - target_w) \div 2,
                  CropOrigin(r.ret.h - target_h, mode, offset), target_w, target_h, r.arg)

\* crop_poster(img, target_w, target_h) for a given crop mode and slider value,
\* lines 1298-1345
CropPosterAt(img, target_w, target_h, mode, offset) ==
  CropWindow(Scaled(img, MaxScale(img.w, img.h, target_w, target_h)),
             img.w > img.h, target_w, target_h, mode, offset)

\* ------------------------------------------------------------------------
\* Text layout of the summary (render, lines 1130-1189)
\* A text is a sequence of characters; a font gives each character an advance
\* width (font.getlength adds them up) and an ascent and a descent
\* (font.getmetrics).
\* ------------------------------------------------------------------------
Whitespace == {" ", "\t", "\n"}

\* The font of the summary (ImageFont.truetype("arialbd.ttf", 32) or the default
\* font, lines 1133-1143): a letter's and a space's advance width, and the
\* ascent and descent of font.getmetrics(), scaled down to the text boxes drawn.
GlyphWidth == 2
SpaceWidth == 1
FontAscent == 2
FontDescent == 1

TheFont == [glyph |-> GlyphWidth, space |-> SpaceWidth,
            ascent |-> FontAscent, descent |-> FontDescent]

LineHeight == FontAscent + FontDescent

RECURSIVE getlength(_, _)
getlength(font, str) ==
  IF str = <<>> THEN 0
  ELSE (IF Head(str) = " " THEN font.space ELSE font.glyph) + getlength(font, Tail(str))

\* str.split(sep) with an explicit separator: k separators give k + 1 pieces
RECURSIVE SplitFrom(_, _, _, _)
SplitFrom(str, sep, piece, pieces) ==
  IF str = <<>> THEN Append(pieces, piece)
  ELSE IF Head(str) = sep THEN SplitFrom(Tail(str), sep, <<>>, Append(pieces, piece))
  ELSE SplitFrom(Tail(str), sep, Append(piece, Head(str)), pieces)

split(str, sep) == SplitFrom(str, sep, <<>>, <<>>)

\* raw_line.strip() == ""
StripIsEmpty(str) == \A i \in 1 .. Len(str) : str[i] \in Whitespace

\* the loop over the words of one paragraph, lines 1158-1170
RECURSIVE WrapWords(_, _, _, _, _)
WrapWords(words, current, lines, font, max_width) ==
  IF words = <<>>
  THEN IF current # <<>> THEN Append(lines, current) ELSE lines
  ELSE LET word == Head(words)
           test == IF current = <<>> THEN word ELSE current \o <<" ">> \o word
       IN  IF getlength(font, test) <= max_width
           THEN WrapWords(Tail(words), test, lines, font, max_width)
           ELSE WrapWords(Tail(words), word,
                          IF current # <<>> THEN Append(lines, current) ELSE lines,
                          font, max_width)

\* every non-empty word of the paragraph on a line of its own
ParagraphLinesWordPerLine(raw_line, font, max_width) ==
  IF StripIsEmpty(raw_line) THEN << <<>> >>
  ELSE SelectSeq(split(raw_line, " "), LAMBDA w : w # <<>>)

\* the body of the loop over paragraphs, lines 1148-1170, without the blank line
ParagraphLinesDropBlank(raw_line, font, max_width) ==
  IF StripIsEmpty(raw_line) THEN <<>>
  ELSE WrapWords(split(raw_line, " "), <<>>, <<>>, font, max_width)

\* the lines one paragraph adds: the body of the loop over paragraphs, lines 1148-1170
ParagraphLines(raw_line, font, max_width) ==
  IF StripIsEmpty(raw_line) THEN << <<>> >>
  ELSE WrapWords(split(raw_line, " "), <<>>, <<>>, font, max_width)

RECURSIVE Flatten(_)
Flatten(groups) == IF groups = <<>> THEN <<>> ELSE Head(groups) \o Flatten(Tail(groups))

\* the drawing loop, lines 1176-1189: the lines emitted (drawn, or consumed as a
\* blank line) before y_offset reaches max_height, each with its y_offset
RECURSIVE EmitLines(_, _, _, _, _)
EmitLines(lines, y_offset, line_height, max_height, emitted) ==
  IF lines = <<>> \/ y_offset >= max_height THEN emitted
  ELSE EmitLines(Tail(lines), y_offset + line_height, line_height, max_height,
                 Append(emitted, [y |-> y_offset, text |-> Head(lines)]))

\* the text layout of render, lines 1130-1189, for a text box max_width x max_height
LayoutText(text, font, max_width, max_height) ==
  LET paragraphs == split(text, "\n")
      groups == [p \in 1 .. Len(paragraphs) |-> ParagraphLines(paragraphs[p], font, max_width)]
      lines == Flatten(groups)
      line_height == font.ascent + font.descent
  IN  [paragraphs |-> paragraphs, groups |-> groups, lines |-> lines,
       line_height |-> line_height,
       emitted |-> EmitLines(lines, 0, line_height, max_height, <<>>)]

\* ------------------------------------------------------------------------
\* State
\* ------------------------------------------------------------------------
VARIABLES
  assets,             \* self.assets: slot -> image or None; "summary" -> text
  crop_mode_var,      \* self.crop_mode_var
  crop_offset_var,    \* self.crop_offset_var
  colors,             \* self.colors: "back", "spine", "banner", "text" -> RGB
  nfc_logo_colors,    \* self.nfc_logo_colors: "front", "spine", "back" -> variant
  nfc_logos,          \* self.nfc_logos: "white", "black" -> the mark's bitmap
  poster_orientation, \* self.poster_orientation
  config_data,        \* self.config_data: the API keys and the system logo folder
  menu_state,         \* the state of the menu entries and whether the crop frame is shown
  win,                \* the modal window that is open, if any
  rendered,           \* what the last call of render returned or raised
  ops,                \* the number of commands invoked from the main window so far
  call                \* the last call: the function or handler, its inputs and outcome

vars == <<assets, crop_mode_var, crop_offset_var, colors, nfc_logo_colors, nfc_logos,
          poster_orientation, config_data, menu_state, win, rendered, ops, call>>

appVars == <<assets, crop_mode_var, crop_offset_var, colors, nfc_logo_colors, nfc_logos,
             poster_orientation, config_data, menu_state, win, rendered, ops>>

\* crop_poster(img, target_w, target_h), lines 1298-1345
crop_poster(img, target_w, target_h) ==
  CropPosterAt(img, target_w, target_h, crop_mode_var, crop_offset_var)

ImageKeys ==
  {"poster", "title_logo_default", "title_logo_spine", "title_logo_back",
   "system_logo_default", "system_logo_front", "system_logo_spine",
   "system_logo_back", "original_cover_back", "screenshot"}

AssetKeys == ImageKeys \cup {"summary"}

CropModes == {"center", "top", "bottom", "manual"}

\* CassetteApp.__init__, lines 199-214, and the crop controls of _build_ui,
\* lines 625-626
EmptyAssets == [k \in AssetKeys |-> IF k = "summary" THEN <<>> ELSE None]

\* DEFAULT_CONFIG["colors"], lines 34-39
DefaultColors ==
  [back |-> <<20, 20, 20>>, spine |-> <<30, 30, 30>>,
   banner |-> <<200, 30, 30>>, text |-> <<255, 255, 255>>]

\* DEFAULT_CONFIG["nfc_logo"], lines 40-44
DefaultNfcLogo == [front |-> "white", spine |-> "white", back |-> "white"]

\* the two bitmaps assets/nfc_logo_white.png and assets/nfc_logo_black.png,
\* lines 217-220: the files are not part of the sources, their size is drawn
NfcLogosOfSize(sz) ==
  [white |-> Image(sz[1], sz[2], TRUE, "nfc_logo_white.png"),
   black |-> Image(sz[1], sz[2], TRUE, "nfc_logo_black.png")]

NfcLogoSizes == {<<12 * DimStep, 4 * DimStep>>, <<2 * DimStep, DimStep>>}

NotRendered == [exc |-> "not called"]

NoWindow == [kind |-> "none"]

NoCall == [fn |-> "", img |-> None, box |-> <<0, 0>>, out |-> None]

\* DEFAULT_CONFIG, lines 27-33: no API key and no system logo folder
DefaultConfig ==
  [steamgriddb |-> "", tmdb |-> "", system_logo_dir |-> "", colors |-> DefaultColors]

\* the configurations read by load_config (lines 107-112) that are drawn
ConfigFiles ==
  {DefaultConfig, [DefaultConfig EXCEPT !.steamgriddb = "key", !.system_logo_dir = "logos"]}

\* has_any_api(), lines 1721-1732
has_any_api(cfg) == cfg.steamgriddb # "" \/ cfg.tmdb # ""

\* update_override_states() leaving the cascades as they are
update_override_states_skipped(a, m) == m

\* update_override_states() enabling the override cascades whatever the slots hold
update_override_states_always_normal(a, m) ==
  [m EXCEPT !.title_override = "normal", !.system_override = "normal"]

\* update_override_states(), lines 1528-1565: the override cascades of the two
\* logo menus are enabled exactly when the default slot is filled
update_override_states(a, m) ==
  [m EXCEPT !.title_override =
              IF a["title_logo_default"] # None THEN "normal" ELSE "disabled",
            !.system_override =
              IF a["system_logo_default"] # None THEN "normal" ELSE "disabled"]

\* update_system_folder_search_state(), lines 1567-1588; isdir is what
\* os.path.isdir answers for the configured folder
update_system_folder_search_state(cfg, isdir, m) ==
  [m EXCEPT !.system_folder_search =
              IF cfg.system_logo_dir # "" /\ isdir THEN "normal" ELSE "disabled"]

\* update_search_menu_states(), lines 1734-1786
update_search_menu_states(a, cfg, m) ==
  [m EXCEPT !.poster_search = IF has_any_api(cfg) THEN "normal" ELSE "disabled",
            !.title_all_search = IF has_any_api(cfg) THEN "normal" ELSE "disabled",
            !.title_override_search =
              IF has_any_api(cfg) /\ a["title_logo_default"] # None
              THEN "normal" ELSE "disabled"]

\* update_crop_visibility(), lines 1268-1274
update_crop_visibility(a, m) == [m EXCEPT !.crop_frame = IsImage(a["poster"])]

\* update_poster_orientation(), lines 1276-1288
update_poster_orientation(a, orientation) ==
  IF ~IsImage(a["poster"]) THEN orientation
  ELSE IF a["poster"].w > a["poster"].h THEN "landscape" ELSE "portrait"

\* the menus as _build_ui creates them (lines 428-617): every entry enabled,
\* the crop frame not packed
BuiltMenus ==
  [title_override |-> "normal", system_override |-> "normal",
   poster_search |-> "normal", title_all_search |-> "normal",
   title_override_search |-> "normal", system_folder_search |-> "normal",
   crop_frame |-> FALSE]

\* the menus after __init__: lines 539, 616, 617, 223 and 226
InitialMenus(cfg) ==
  update_search_menu_states(EmptyAssets, cfg,
    update_crop_visibility(EmptyAssets,
      update_system_folder_search_state(cfg, TRUE,
        update_override_states(EmptyAssets, BuiltMenus))))

\* CassetteApp.__init__, lines 161-223, and the crop controls of _build_ui,
\* lines 625-626, before the first update_preview
InitFields ==
  /\ assets = EmptyAssets
  /\ crop_mode_var = "center"
  /\ crop_offset_var = 0
  /\ colors = DefaultColors
  /\ nfc_logo_colors = DefaultNfcLogo
  /\ nfc_logos \in {NfcLogosOfSize(sz) : sz \in NfcLogoSizes}
  /\ poster_orientation = "portrait"
  /\ config_data \in ConfigFiles
  /\ menu_state = InitialMenus(config_data)
  /\ win = NoWindow
  /\ ops = 0

InitApp ==
  /\ InitFields
  /\ rendered = NotRendered

\* ------------------------------------------------------------------------
\* RENDERER (lines 1007-1240)
\* render is modelled as its steps in program order, threading a record st:
\* the exception raised so far, the asset objects as the calls leave them, the
\* canvas, the rectangles drawn and images pasted, the back cursor y and the
\* fitted back-panel images.
\* ------------------------------------------------------------------------
\* Image.new("RGB", (CARD_H, CARD_W), ...): width and height exchanged
NewCanvasTransposed == Image(CARD_H, CARD_W, TRUE, "canvas")

\* Image.new("RGB", (CARD_W, CARD_H), self.colors["back"]), line 1008
NewCanvas == Image(CARD_W, CARD_H, TRUE, "canvas")

\* lines 1008-1015: the canvas and the two rectangles (PIL rectangles include
\* their end coordinates)
RenderStart(a, cols) ==
  [exc |-> "", a |-> a, canvas |-> NewCanvas,
   fills |-> << [x0 |-> 0, y0 |-> 0, x1 |-> NewCanvas.w - 1, y1 |-> NewCanvas.h - 1,
                 color |-> cols["back"]],
                [x0 |-> BACK_W, y0 |-> 0, x1 |-> BACK_W + SPINE_W, y1 |-> CARD_H,
                 color |-> cols["spine"]],
                [x0 |-> FRONT_X, y0 |-> 0, x1 |-> CARD_W, y1 |-> BANNER_H,
                 color |-> cols["banner"]] >>,
   pastes |-> <<>>, y |-> PADDING,
   nfc_back |-> None, sys_back |-> None, shot |-> None,
   text_box |-> None, text |-> None]

\* img.paste(image, (x, y), ...): the canvas keeps its size
Paste(st, elem, src, img, x, y) ==
  [st EXCEPT !.pastes = Append(@, [elem |-> elem, src |-> src, x |-> x, y |-> y,
                                   w |-> img.w, h |-> img.h])]

\* the default slot taken whenever it is filled
EffectiveDefaultFirst(a, override, default) ==
  IF IsImage(a[default]) THEN default ELSE override

\* self.assets[override] or self.assets[default]: the slot that is used
Effective(a, override, default) == IF IsImage(a[override]) THEN override ELSE default

\* lines 1018-1020
PastePoster(st, r) ==
  IF r.exc # "" THEN [st EXCEPT !.a["poster"] = r.arg, !.exc = r.exc]
  ELSE Paste([st EXCEPT !.a["poster"] = r.arg], "poster", "poster", r.ret, FRONT_X, BANNER_H)

FrontPoster(st, mode, offset) ==
  IF st.exc # "" \/ ~IsImage(st.a["poster"]) THEN st
  ELSE PastePoster(st, CropPosterAt(st.a["poster"], FRONT_W, POSTER_H, mode, offset))

\* lines 1022-1030
FrontSystemLogo(st) ==
  LET key == Effective(st.a, "system_logo_front", "system_logo_default")
      r == fit_image(st.a[key], SYSTEM_LOGO_FRONT_MAX[1], SYSTEM_LOGO_FRONT_MAX[2])
      st1 == [st EXCEPT !.a[key] = r.arg, !.exc = r.exc]
  IN  IF st.exc # "" \/ ~IsImage(st.a[key]) THEN st
      ELSE IF r.exc # "" THEN st1
      ELSE Paste(st1, "system_logo_front", key, r.ret,
                 FRONT_X + PADDING, (BANNER_H - r.ret.h) \div 2)

\* lines 1032-1041
FrontNfc(st, sel, logos) ==
  LET r == fit_image(logos[sel["front"]], NFC_FRONT_MAX[1], NFC_FRONT_MAX[2])
  IN  IF st.exc # "" THEN st
      ELSE IF r.exc # "" THEN [st EXCEPT !.exc = r.exc]
      ELSE Paste(st, "nfc_front", sel["front"], r.ret,
                 CARD_W - r.ret.w - NFC_MARGIN, NFC_MARGIN)

\* lines 1043-1052
SpineSystemLogo(st) ==
  LET key == Effective(st.a, "system_logo_spine", "system_logo_default")
      rotated == rotate90(st.a[key])
      r == fit_image(rotated.ret, SYSTEM_LOGO_SPINE_MAX[1], SYSTEM_LOGO_SPINE_MAX[2])
      st1 == [st EXCEPT !.a[key] = rotated.arg]
  IN  IF st.exc # "" \/ ~IsImage(st.a[key]) THEN st
      ELSE IF rotated.exc # "" THEN [st1 EXCEPT !.exc = rotated.exc]
      ELSE IF r.exc # "" THEN [st1 EXCEPT !.exc = r.exc]
      ELSE Paste(st1, "system_logo_spine", key, r.ret,
                 BACK_W + (SPINE_W - r.ret.w) \div 2, NFC_MARGIN)

\* the spine title logo placed at the top margin instead of the centre
SpineTitleLogoAtTop(st) ==
  LET key == Effective(st.a, "title_logo_spine", "title_logo_default")
      rotated == rotate90(st.a[key])
      r == fit_image(rotated.ret, TITLE_LOGO_SPINE_MAX[1], TITLE_LOGO_SPINE_MAX[2])
      st1 == [st EXCEPT !.a[key] = rotated.arg]
  IN  IF st.exc # "" \/ ~IsImage(st.a[key]) THEN st
      ELSE IF rotated.exc # "" THEN [st1 EXCEPT !.exc = rotated.exc]
      ELSE IF r.exc # "" THEN [st1 EXCEPT !.exc = r.exc]
      ELSE Paste(st1, "title_logo_spine", key, r.ret,
                 BACK_W + (SPINE_W - r.ret.w) \div 2, NFC_MARGIN)

\* lines 1054-1065
SpineTitleLogo(st) ==
  LET key == Effective(st.a, "title_logo_spine", "title_logo_default")
      rotated == rotate90(st.a[key])
      r == fit_image(rotated.ret, TITLE_LOGO_SPINE_MAX[1], TITLE_LOGO_SPINE_MAX[2])
      st1 == [st EXCEPT !.a[key] = rotated.arg]
  IN  IF st.exc # "" \/ ~IsImage(st.a[key]) THEN st
      ELSE IF rotated.exc # "" THEN [st1 EXCEPT !.exc = rotated.exc]
      ELSE IF r.exc # "" THEN [st1 EXCEPT !.exc = r.exc]
      ELSE Paste(st1, "title_logo_spine", key, r.ret,
                 BACK_W + (SPINE_W - r.ret.w) \div 2, (CARD_H - r.ret.h) \div 2)

\* lines 1067-1075: the mark is fitted first and rotated afterwards
SpineNfc(st, sel, logos) ==
  LET r == fit_image(logos[sel["spine"]], NFC_SPINE_MAX[1], NFC_SPINE_MAX[2])
      rotated == rotate90(r.ret)
  IN  IF st.exc # "" THEN st
      ELSE IF r.exc # "" THEN [st EXCEPT !.exc = r.exc]
      ELSE Paste(st, "nfc_spine", sel["spine"], rotated.ret,
                 BACK_W + (SPINE_W - rotated.ret.w) \div 2,
                 CARD_H - rotated.ret.h - NFC_MARGIN)

\* lines 1084-1093: the mark and the system logo of the back, fitted in advance
BackPrecalc(st, sel, logos) ==
  LET n == fit_image(logos[sel["back"]], NFC_BACK_MAX[1], NFC_BACK_MAX[2])
      key == Effective(st.a, "system_logo_back", "system_logo_default")
      r == fit_image(st.a[key], SYSTEM_LOGO_BACK_MAX[1], SYSTEM_LOGO_BACK_MAX[2])
  IN  IF st.exc # "" THEN st
      ELSE IF n.exc # "" THEN [st EXCEPT !.exc = n.exc]
      ELSE IF ~IsImage(st.a[key]) THEN [st EXCEPT !.nfc_back = n.ret]
      ELSE [st EXCEPT !.nfc_back = n.ret, !.a[key] = r.arg, !.exc = r.exc,
                      !.sys_back = r.ret]

\* lines 1095-1100
BackTitleLogo(st) ==
  LET key == Effective(st.a, "title_logo_back", "title_logo_default")
      r == fit_image(st.a[key], TITLE_LOGO_BACK_MAX[1], TITLE_LOGO_BACK_MAX[2])
      st1 == [st EXCEPT !.a[key] = r.arg, !.exc = r.exc]
  IN  IF st.exc # "" \/ ~IsImage(st.a[key]) THEN st
      ELSE IF r.exc # "" THEN st1
      ELSE [Paste(st1, "title_logo_back", key, r.ret, (BACK_W - r.ret.w) \div 2, st.y)
              EXCEPT !.y = st.y + r.ret.h + BACK_GAP]

\* the screenshot pasted without moving the cursor
BackScreenshotCursorKept(st) ==
  LET r == fit_image(st.a["screenshot"], SCREENSHOT_MAX[1], SCREENSHOT_MAX[2])
      st1 == [st EXCEPT !.a["screenshot"] = r.arg, !.exc = r.exc]
  IN  IF st.exc # "" \/ ~IsImage(st.a["screenshot"]) THEN st
      ELSE IF r.exc # "" THEN st1
      ELSE [Paste(st1, "screenshot", "screenshot", r.ret, (BACK_W - r.ret.w) \div 2, st.y)
              EXCEPT !.shot = r.ret]

\* lines 1102-1106
BackScreenshot(st) ==
  LET r == fit_image(st.a["screenshot"], SCREENSHOT_MAX[1], SCREENSHOT_MAX[2])
      st1 == [st EXCEPT !.a["screenshot"] = r.arg, !.exc = r.exc]
  IN  IF st.exc # "" \/ ~IsImage(st.a["screenshot"]) THEN st
      ELSE IF r.exc # "" THEN st1
      ELSE [Paste(st1, "screenshot", "screenshot", r.ret, (BACK_W - r.ret.w) \div 2, st.y)
              EXCEPT !.y = st.y + r.ret.h + BACK_GAP, !.shot = r.ret]

\* the summary box always as wide as the content width of the back
BackSummaryFullWidth(st, font) ==
  LET bottom_reserved ==
        NFC_MARGIN + st.nfc_back.h + BACK_GAP
          + (IF IsImage(st.sys_back) THEN st.sys_back.h + BACK_GAP ELSE 0)
      text_box == Image(BACK_W - 2 * PADDING, CARD_H - bottom_reserved - st.y, TRUE, "text_box")
  IN  IF st.exc # "" \/ st.a["summary"] = <<>> THEN st
      ELSE [Paste(st, "summary", "summary", text_box, (BACK_W - text_box.w) \div 2, st.y)
              EXCEPT !.text_box = text_box,
                     !.text = LayoutText(st.a["summary"], font, text_box.w, text_box.h),
                     !.y = st.y + text_box.h + BACK_GAP]

\* the summary box sized without reserving room for the back system logo
BackSummaryMarkOnly(st, font) ==
  LET max_text_height == CARD_H - (NFC_MARGIN + st.nfc_back.h + BACK_GAP) - st.y
      text_width == IF IsImage(st.a["screenshot"]) THEN st.shot.w ELSE BACK_W - 2 * PADDING
      text_box == Image(text_width, max_text_height, TRUE, "text_box")
  IN  IF st.exc # "" \/ st.a["summary"] = <<>> THEN st
      ELSE [Paste(st, "summary", "summary", text_box, (BACK_W - text_width) \div 2, st.y)
              EXCEPT !.text_box = text_box,
                     !.text = LayoutText(st.a["summary"], font, text_box.w, text_box.h),
                     !.y = st.y + text_box.h + BACK_GAP]

\* lines 1108-1197
BackSummary(st, font) ==
  LET bottom_reserved ==
        NFC_MARGIN + st.nfc_back.h + BACK_GAP
          + (IF IsImage(st.sys_back) THEN st.sys_back.h + BACK_GAP ELSE 0)
      max_text_height == CARD_H - bottom_reserved - st.y
      text_width == IF IsImage(st.a["screenshot"]) THEN st.shot.w ELSE BACK_W - 2 * PADDING
      text_box == Image(text_width, max_text_height, TRUE, "text_box")
      x_pos == IF IsImage(st.a["screenshot"]) THEN (BACK_W - st.shot.w) \div 2
               ELSE (BACK_W - text_box.w) \div 2
  IN  IF st.exc # "" \/ st.a["summary"] = <<>> THEN st
      ELSE IF text_width < 0 \/ max_text_height < 0 THEN [st EXCEPT !.exc = "ValueError"]
      ELSE [Paste(st, "summary", "summary", text_box, x_pos, st.y)
              EXCEPT !.text_box = text_box,
                     !.text = LayoutText(st.a["summary"], font, text_box.w, text_box.h),
                     !.y = st.y + text_box.h + BACK_GAP]

\* the thumbnail always stacked on the mark, as if no system logo were drawn
BackOriginalCoverOnMark(st) ==
  LET r == fit_image(st.a["original_cover_back"],
                     ORIGINAL_COVER_BACK_MAX[1], ORIGINAL_COVER_BACK_MAX[2])
      st1 == [st EXCEPT !.a["original_cover_back"] = r.arg, !.exc = r.exc]
  IN  IF st.exc # "" \/ ~IsImage(st.a["original_cover_back"]) THEN st
      ELSE IF r.exc # "" THEN st1
      ELSE Paste(st1, "original_cover_back", "original_cover_back", r.ret,
                 (BACK_W - r.ret.w) \div 2,
                 CARD_H - st.nfc_back.h - NFC_MARGIN - r.ret.h - BACK_GAP)

\* lines 1199-1223
BackOriginalCover(st) ==
  LET nfc_y == CARD_H - st.nfc_back.h - NFC_MARGIN
      sys_y == nfc_y - st.sys_back.h - BACK_GAP
      r == fit_image(st.a["original_cover_back"],
                     ORIGINAL_COVER_BACK_MAX[1], ORIGINAL_COVER_BACK_MAX[2])
      orig_y == IF IsImage(st.sys_back) THEN sys_y - r.ret.h - BACK_GAP
                ELSE nfc_y - r.ret.h - BACK_GAP
      st1 == [st EXCEPT !.a["original_cover_back"] = r.arg, !.exc = r.exc]
  IN  IF st.exc # "" \/ ~IsImage(st.a["original_cover_back"]) THEN st
      ELSE IF r.exc # "" THEN st1
      ELSE Paste(st1, "original_cover_back", "original_cover_back", r.ret,
                 (BACK_W - r.ret.w) \div 2, orig_y)

\* lines 1204-1208 and 1225-1238
BackBottom(st, sel) ==
  LET nfc_y == CARD_H - st.nfc_back.h - NFC_MARGIN
      sys_y == nfc_y - st.sys_back.h - BACK_GAP
      key == Effective(st.a, "system_logo_back", "system_logo_default")
      st1 == IF IsImage(st.sys_back)
             THEN Paste(st, "system_logo_back", key, st.sys_back,
                        (BACK_W - st.sys_back.w) \div 2, sys_y)
             ELSE st
  IN  IF st.exc # "" THEN st
      ELSE Paste(st1, "nfc_back", sel["back"], st.nfc_back,
                 (BACK_W - st.nfc_back.w) \div 2, nfc_y)

\* render(), lines 1007-1240, on the assets a, the crop settings, the colours,
\* the mark selection and the mark bitmaps
RenderSteps(a, mode, offset, cols, sel, logos) ==
  LET s1 == FrontNfc(FrontSystemLogo(FrontPoster(RenderStart(a, cols), mode, offset)), sel, logos)
      s2 == SpineNfc(SpineTitleLogo(SpineSystemLogo(s1)), sel, logos)
      s3 == BackScreenshot(BackTitleLogo(BackPrecalc(s2, sel, logos)))
  IN  BackBottom(BackOriginalCover(BackSummary(s3, TheFont)), sel)

\* what render returns (the raster: its size, rectangles, pasted images and the
\* text laid out, with the back cursor y as render leaves it) or the exception
\* it raises
RenderResult(st) ==
  IF st.exc # "" THEN [exc |-> st.exc]
  ELSE [exc |-> "", w |-> st.canvas.w, h |-> st.canvas.h, fills |-> st.fills,
        pastes |-> st.pastes, text |-> st.text, y |-> st.y]

\* ------------------------------------------------------------------------
\* The fitting functions applied to drawn inputs
\* ------------------------------------------------------------------------
Dims == (1 .. MaxSmallDim) \cup {DimStep * k : k \in 1 .. MaxDimK}

InputImages == {Image(w, h, TRUE, "input") : w \in Dims, h \in Dims}

\* the boxes the program passes to fit_image (lines 1025-1212, 1683, 2168)
FitBoxes ==
  {NFC_FRONT_MAX, NFC_SPINE_MAX, NFC_BACK_MAX, TITLE_LOGO_BACK_MAX,
   TITLE_LOGO_SPINE_MAX, SCREENSHOT_MAX, ORIGINAL_COVER_BACK_MAX,
   SYSTEM_LOGO_FRONT_MAX, SYSTEM_LOGO_SPINE_MAX, SYSTEM_LOGO_BACK_MAX,
   <<200, 200>>, <<200, 300>>}

FillBoxes ==
  {<<FRONT_W, POSTER_H>>} \cup {<<w, h>> : w \in 1 .. MaxSmallBox, h \in 1 .. MaxSmallBox}

SliderValues == {(SLIDER_MAX * k) \div SliderSteps : k \in 0 .. SliderSteps}

\* the application as constructed, with one of the mark bitmaps
InitHarness ==
  /\ InitApp
  /\ config_data = DefaultConfig
  /\ nfc_logos = NfcLogosOfSize(<<12 * DimStep, 4 * DimStep>>)

InitFit ==
  /\ InitHarness
  /\ call \in {[fn |-> "", img |-> i, box |-> b, out |-> None] :
                 i \in InputImages, b \in FitBoxes \cup FillBoxes}

CallFitImage ==
  /\ call.fn = ""
  /\ call.box \in FitBoxes
  /\ call' = [call EXCEPT !.fn = "fit_image",
                          !.out = fit_image(call.img, call.box[1], call.box[2])]
  /\ UNCHANGED appVars

CallFitFill ==
  /\ call.fn = ""
  /\ call.box \in FillBoxes
  /\ call' = [call EXCEPT !.fn = "fit_fill",
                          !.out = fit_fill(call.img, call.box[1], call.box[2])]
  /\ UNCHANGED appVars

NextFit == CallFitImage \/ CallFitFill

SpecFit == InitFit /\ [][NextFit]_vars

InitCrop ==
  /\ assets = EmptyAssets
  /\ crop_mode_var \in CropModes
  /\ crop_offset_var \in SliderValues
  /\ colors = DefaultColors
  /\ nfc_logo_colors = DefaultNfcLogo
  /\ nfc_logos = NfcLogosOfSize(<<12 * DimStep, 4 * DimStep>>)
  /\ poster_orientation = "portrait"
  /\ config_data = DefaultConfig
  /\ menu_state = InitialMenus(config_data)
  /\ win = NoWindow
  /\ ops = 0
  /\ rendered = NotRendered
  /\ call \in {[fn |-> "", img |-> i, box |-> <<FRONT_W, POSTER_H>>, out |-> None] :
                 i \in InputImages}

CallCropPoster ==
  /\ call.fn = ""
  /\ call' = [call EXCEPT !.fn = "crop_poster",
                          !.out = crop_poster(call.img, call.box[1], call.box[2])]
  /\ UNCHANGED appVars

NextCrop == CallCropPoster

SpecCrop == InitCrop /\ [][NextCrop]_vars

\* ------------------------------------------------------------------------
\* Properties of the fitting functions
\* ------------------------------------------------------------------------
\* C6: for every image iw x ih and every box max_w x max_h, fit_image returns
\* the size unchanged when iw <= max_w and ih <= max_h, and otherwise returns
\* the size (floor(iw*s), floor(ih*s)) with s = min(max_w/iw, max_h/ih), both
\* dimensions within the box and neither larger than the input's.
C6_FitImageExactFloor ==
  call.fn = "fit_image" =>
    LET iw == call.img.w
        ih == call.img.h
        max_w == call.box[1]
        max_h == call.box[2]
        s == MinScale(iw, ih, max_w, max_h)
        out == call.out
    IN  /\ out.exc = ""
        /\ IF iw <= max_w /\ ih <= max_h
           THEN out.ret.w = iw /\ out.ret.h = ih
           ELSE /\ out.ret.w = (iw * s[1]) \div s[2]
                /\ out.ret.h = (ih * s[1]) \div s[2]
                /\ out.ret.w <= max_w /\ out.ret.h <= max_h
                /\ out.ret.w <= iw /\ out.ret.h <= ih

\* the boxes render passes to fit_image (lines 1025-1212)
RenderFitBoxes == FitBoxes \ {<<200, 200>>, <<200, 300>>}

\* C29: for every input image of width and height at least 1 and each box
\* render passes to fit_image, fit_image returns an image of width and height
\* at least 1, so no render step receives a zero-area image.
C29_FittedImageNonEmpty ==
  call.fn = "fit_image" /\ call.box \in RenderFitBoxes
                        /\ call.img.w >= 1 /\ call.img.h >= 1 =>
    /\ call.out.exc = ""
    /\ call.out.ret.w >= 1
    /\ call.out.ret.h >= 1

\* C7: for every positive-area image and every target box w x h, fit_fill
\* returns an image of exactly w x h, and crop_poster returns an image of
\* exactly target_w x target_h for every crop mode and slider value.
C7_FillReturnsExactBox ==
  call.fn \in {"fit_fill", "crop_poster"} =>
    /\ call.out.exc = ""
    /\ call.out.ret.w = call.box[1]
    /\ call.out.ret.h = call.box[2]

\* C8: for every cover image, crop mode and slider value the crop origin of
\* crop_poster is non-negative and the crop window lies inside the scaled image.
C8_CropOriginInside ==
  call.fn = "crop_poster" /\ call.out.exc = "" =>
    /\ call.out.left >= 0
    /\ call.out.top >= 0
    /\ call.out.left + call.box[1] <= call.out.new_w
    /\ call.out.top + call.box[2] <= call.out.new_h

\* ------------------------------------------------------------------------
\* render applied to drawn asset bundles
\* ------------------------------------------------------------------------
DefaultKey(k) ==
  CASE k \in {"title_logo_spine", "title_logo_back"} -> "title_logo_default"
    [] k \in {"system_logo_front", "system_logo_spine", "system_logo_back"}
         -> "system_logo_default"
    [] OTHER -> k

OverrideKeys == {k \in ImageKeys : DefaultKey(k) # k}

\* which image slots are filled: an override only together with its default
Presences == {S \in SUBSET ImageKeys : \A k \in S : DefaultKey(k) \in S}

\* the kinds of image files drawn: tall, wide, smaller than every box, very
\* narrow, too narrow to keep a pixel when shrunk, and one whose pixel data
\* cannot be decoded
Profiles == {"portrait", "landscape", "banner", "small", "thin", "degenerate", "truncated"}

ProfileSize(p) ==
  CASE p = "portrait" -> <<12 * DimStep, 18 * DimStep>>
    [] p = "landscape" -> <<14 * DimStep, 7 * DimStep>>
    [] p = "banner" -> <<24 * DimStep, 6 * DimStep>>
    [] p = "small" -> <<2 * DimStep, DimStep>>
    [] p = "thin" -> <<2, 4 * DimStep - 1>>
    [] p = "degenerate" -> <<1, MaxDimK * DimStep>>
    [] OTHER -> <<12 * DimStep, 18 * DimStep>>

\* the image held by slot k: an override is the default's picture turned
ProfileImage(p, k) ==
  IF k \in OverrideKeys
  THEN Image(ProfileSize(p)[2], ProfileSize(p)[1], p # "truncated", k)
  ELSE Image(ProfileSize(p)[1], ProfileSize(p)[2], p # "truncated", k)

SummaryTexts == {<<>>, <<"A", " ", "B", "\n", "\n", "A">>}

Bundle(S, p, text) ==
  [k \in AssetKeys |->
     IF k = "summary" THEN text
     ELSE IF k \in S THEN ProfileImage(p, k) ELSE None]

CropSettings ==
  {<<m, 0>> : m \in CropModes \ {"manual"}} \cup {<<"manual", v>> : v \in SliderValues}

InitRender ==
  /\ assets \in {Bundle(S, p, t) : S \in Presences, p \in Profiles, t \in SummaryTexts}
  /\ \E c \in CropSettings : crop_mode_var = c[1] /\ crop_offset_var = c[2]
  /\ colors = DefaultColors
  /\ nfc_logo_colors = DefaultNfcLogo
  /\ nfc_logos = NfcLogosOfSize(<<12 * DimStep, 4 * DimStep>>)
  /\ poster_orientation = "portrait"
  /\ config_data = DefaultConfig
  /\ menu_state = InitialMenus(config_data)
  /\ win = NoWindow
  /\ ops = 0
  /\ rendered = NotRendered
  /\ call = NoCall

CallRender ==
  /\ rendered = NotRendered
  /\ \E st \in {RenderSteps(assets, crop_mode_var, crop_offset_var, colors,
                           nfc_logo_colors, nfc_logos)} :
       /\ rendered' = RenderResult(st)
       /\ assets' = st.a
  /\ UNCHANGED <<crop_mode_var, crop_offset_var, colors, nfc_logo_colors, nfc_logos,
                 poster_orientation, config_data, menu_state, win, ops, call>>

NextRender == CallRender

SpecRender == InitRender /\ [][NextRender]_vars

\* the boxes fit_image is called with in render
RenderBoxes ==
  {NFC_FRONT_MAX, NFC_SPINE_MAX, NFC_BACK_MAX, TITLE_LOGO_BACK_MAX, TITLE_LOGO_SPINE_MAX,
   SCREENSHOT_MAX, ORIGINAL_COVER_BACK_MAX, SYSTEM_LOGO_FRONT_MAX, SYSTEM_LOGO_SPINE_MAX,
   SYSTEM_LOGO_BACK_MAX}

LeastBoxSide ==
  CHOOSE m \in {b[1] : b \in RenderBoxes} \cup {b[2] : b \in RenderBoxes} :
    \A b \in RenderBoxes : m <= b[1] /\ m <= b[2]

\* an image whose pixel data decodes and whose sides are less than a factor
\* LeastBoxSide apart, so that shrinking it to a box leaves both sides positive
OrdinaryImage(img) ==
  /\ img.ok
  /\ img.w < LeastBoxSide * img.h
  /\ img.h < LeastBoxSide * img.w

OrdinaryBundle(a) ==
  /\ IsImage(a["poster"]) => a["poster"].ok
  /\ \A k \in ImageKeys \ {"poster"} : IsImage(a[k]) => OrdinaryImage(a[k])

\* C4: whenever render returns, the raster is exactly CARD_W x CARD_H =
\* 1629 x 1600, whichever optional assets are present or absent; and render
\* does return for every combination of present and absent assets whose
\* images decode and are ordinary.
C4_RenderSize ==
  /\ rendered.exc = "" => rendered.w = 1629 /\ rendered.h = 1600
                          /\ rendered.w = CARD_W /\ rendered.h = CARD_H
  /\ rendered # NotRendered /\ OrdinaryBundle(assets) => rendered.exc = ""

C4_Witness ==
  /\ rendered.exc = ""
  /\ rendered.w = CARD_W /\ rendered.h = CARD_H
  /\ \A k \in ImageKeys : IsImage(assets[k])
  /\ assets["summary"] # <<>>

\* C5: a call of render leaves every asset slot (size and identity of the
\* image, summary text), the colours, the mark selections, the crop mode and
\* the crop offset as they were.
C5_RenderReadOnly ==
  [][rendered' # rendered =>
       /\ assets' = assets
       /\ colors' = colors
       /\ nfc_logo_colors' = nfc_logo_colors
       /\ crop_mode_var' = crop_mode_var
       /\ crop_offset_var' = crop_offset_var]_vars

\* render has returned after shrinking a copy of the title logo and the
\* slot still holds the image at its full size
C5_Witness ==
  /\ rendered.exc = ""
  /\ IsImage(assets["title_logo_default"])
  /\ \E i \in 1 .. Len(rendered.pastes) :
       /\ rendered.pastes[i].elem = "title_logo_back"
       /\ rendered.pastes[i].src = "title_logo_default"
       /\ rendered.pastes[i].w < assets["title_logo_default"].w

\* ------------------------------------------------------------------------
\* The text layout applied to drawn inputs
\* ------------------------------------------------------------------------
Alphabet == {"A", "B", " ", "\n"}

Texts == UNION {[1 .. n -> Alphabet] : n \in 0 .. MaxTextLen}

BoxHeights == LineHeight .. (LineHeight * (MaxBoxLines + 1) - 1)

InitText ==
  /\ InitHarness
  /\ call \in {[fn |-> "", text |-> t, font |-> TheFont, box |-> <<w, h>>, out |-> None] :
                 t \in Texts, w \in 1 .. MaxBoxWidth, h \in BoxHeights}

CallLayoutText ==
  /\ call.fn = ""
  /\ call' = [call EXCEPT !.fn = "layout",
                          !.out = LayoutText(call.text, call.font, call.box[1], call.box[2])]
  /\ UNCHANGED appVars

NextText == CallLayoutText

SpecText == InitText /\ [][NextText]_vars

\* C9: for every summary and every text box, the number of lines the layout
\* emits (drawn lines plus consumed blank lines) times the line height is at
\* most the box height max_text_height.
C9_EmittedLinesFitBox ==
  call.fn = "layout" =>
    Len(call.out.emitted) * call.out.line_height <= call.box[2]

\* C10: every paragraph of the summary (split on line breaks) that is empty or
\* whitespace-only produces exactly one blank line, every other paragraph
\* produces at least one line, in paragraph order; so "A\n\nB" gives the three
\* lines "A", blank, "B".
C10_BlankLinesPreserved ==
  call.fn = "layout" =>
    LET out == call.out
    IN  /\ Len(out.groups) = Len(out.paragraphs)
        /\ \A p \in 1 .. Len(out.paragraphs) :
             IF StripIsEmpty(out.paragraphs[p])
             THEN out.groups[p] = << <<>> >>
             ELSE Len(out.groups[p]) >= 1
        /\ out.lines = Flatten(out.groups)
        /\ call.text = <<"A", "\n", "\n", "B">> =>
             out.lines = << <<"A">>, <<>>, <<"B">> >>

C10_Witness ==
  /\ call.fn = "layout"
  /\ call.text = <<"A", "\n", "\n", "B">>
  /\ call.out.lines = << <<"A">>, <<>>, <<"B">> >>

\* ------------------------------------------------------------------------
\* The application: the asset loading handlers and the search windows
\* ------------------------------------------------------------------------
\* the commands invoked from the main window in one session
MaxOps == 3
\* the matching files of a folder search and the image URLs of a catalog title
MaxResults == 1

\* The image files a user can pick or a URL can deliver: complete images
\* without alpha channel, taller than wide and wider than tall, and images
\* whose header is intact and whose pixel data is cut off, with and without
\* alpha channel.
Files ==
  {[data |-> "good", mode |-> "RGB", shape |-> "portrait"],
   [data |-> "good", mode |-> "RGB", shape |-> "landscape"],
   [data |-> "truncated", mode |-> "RGBA", shape |-> "landscape"],
   [data |-> "truncated", mode |-> "RGB", shape |-> "portrait"]}

\* askopenfilename returning "" (the dialog was cancelled)
NoPath == [data |-> "none"]

\* a request that fails (requests.get or raise_for_status raises)
RequestFailed == [data |-> "error"]

\* the image files a URL delivers
UrlFiles == {f \in Files : f.data = "good" \/ f.mode = "RGBA"}

\* what the URL dialog and the request yield: ask_url returns None or "", a
\* text that is no http(s) URL, a URL whose request fails, a URL delivering a file
UrlInputs ==
  {[url |-> "none"], [url |-> "invalid"]}
    \cup {[url |-> "http", response |-> f] : f \in UrlFiles \cup {RequestFailed}}

\* the size of the picture in a file (img.size, known from the header)
PictureSize(file) ==
  IF file.shape = "landscape" THEN <<14 * DimStep, 7 * DimStep>>
  ELSE <<12 * DimStep, 18 * DimStep>>

\* Image.open(path): identifies the file and reads its header; the pixel data
\* is read when the image is first processed
ImageOpen(file, id) ==
  IF file.data \notin {"good", "truncated"} THEN Raised("UnidentifiedImageError", None)
  ELSE Returned(Image(PictureSize(file)[1], PictureSize(file)[2], file.data = "good",
                      "picture"), None)

\* img.convert("RGBA"): decodes the image and returns a new one
convert(img) ==
  IF ~img.ok THEN Raised("OSError", img)
  ELSE Returned(Image(img.w, img.h, TRUE, img.id), img)

\* load_image_from_file(path), lines 100-104 (and lines 237-240, 272-275):
\* the image is converted, hence decoded, only when its mode is not RGBA
load_image_from_file(file, id) ==
  LET o == ImageOpen(file, id)
  IN  IF o.exc # "" THEN o
      ELSE IF file.mode # "RGBA" THEN convert(o.ret)
      ELSE o

\* Image.open(...).convert("RGBA"), lines 1469, 1510, 1690, 2191
OpenConverted(file, id) ==
  LET o == ImageOpen(file, id)
  IN  IF o.exc # "" THEN o ELSE convert(o.ret)

\* requests.get(url); raise_for_status(); then the image is opened
FetchImage(input, id, converted) ==
  IF input.response = RequestFailed THEN Raised("RequestException", None)
  ELSE IF converted THEN OpenConverted(input.response, id)
  ELSE load_image_from_file(input.response, id)

\* update_preview(), lines 1246-1250, for the assets a
UpdatePreview(a) ==
  RenderSteps(a, crop_mode_var, crop_offset_var, colors, nfc_logo_colors, nfc_logos)

\* the override slots of a default slot
OverridesOf(default) == {k \in OverrideKeys : DefaultKey(k) = default}

\* the overrides of a default slot left as they are
KeepOverrides(a, default) == a

\* "If setting new default, clear overrides": lines 1474-1478, 1514-1517,
\* 1694-1698 and 2195-2198
ClearOverrides(a, default) ==
  [k \in DOMAIN a |-> IF k \in OverridesOf(default) THEN None ELSE a[k]]

\* the record of a handler's run: the slot it was asked to fill, the slot it
\* assigned, the exception raised inside it, the message box it showed, and
\* whether an override of the slot's family was filled when it started
Handled(fn, key, stored, exc, shown) ==
  [fn |-> fn, key |-> key, stored |-> stored, exc |-> exc, shown |-> shown,
   had_override |-> \E k \in OverridesOf(key) : IsImage(assets[k])]

MainWindow == win = NoWindow /\ ops < MaxOps

\* -- load_asset_file(key), lines 228-249, and load_asset_url(key), lines 251-288
PlainKeys == {"poster", "screenshot", "original_cover_back"}

\* lines 241-246 and 277-282: assign, update the preview, then the crop controls
StoreAsset(fn, key, img) ==
  \E st \in {UpdatePreview([assets EXCEPT ![key] = img])} :
    /\ assets' = st.a
    /\ rendered' = RenderResult(st)
    /\ call' = Handled(fn, key, key, st.exc, IF st.exc # "" THEN "error" ELSE "")
    /\ menu_state' = IF st.exc = "" /\ key = "poster"
                     THEN update_crop_visibility(st.a, menu_state) ELSE menu_state
    /\ poster_orientation' = IF st.exc = "" /\ key = "poster"
                             THEN update_poster_orientation(st.a, poster_orientation)
                             ELSE poster_orientation

NothingStored(fn, key, exc, shown) ==
  /\ call' = Handled(fn, key, "", exc, shown)
  /\ UNCHANGED <<assets, rendered, menu_state, poster_orientation>>

load_asset_file(key, path) ==
  /\ MainWindow
  /\ ops' = ops + 1
  /\ LET r == load_image_from_file(path, "file")
     IN  IF path = NoPath THEN NothingStored("load_asset_file", key, "", "")
         ELSE IF r.exc # "" THEN NothingStored("load_asset_file", key, r.exc, "error")
         ELSE StoreAsset("load_asset_file", key, r.ret)
  /\ UNCHANGED <<crop_mode_var, crop_offset_var, colors, nfc_logo_colors, nfc_logos,
                 config_data, win>>

load_asset_url(key, input) ==
  /\ MainWindow
  /\ ops' = ops + 1
  /\ LET r == FetchImage(input, "url", FALSE)
     IN  IF input.url = "none" THEN NothingStored("load_asset_url", key, "", "")
         ELSE IF input.url = "invalid" THEN NothingStored("load_asset_url", key, "", "error")
         ELSE IF r.exc # "" THEN NothingStored("load_asset_url", key, r.exc, "error")
         ELSE StoreAsset("load_asset_url", key, r.ret)
  /\ UNCHANGED <<crop_mode_var, crop_offset_var, colors, nfc_logo_colors, nfc_logos,
                 config_data, win>>

\* -- load_system_logo(target, source), lines 1443-1486, and
\* -- load_title_logo(target, source), lines 1488-1526
SystemTargets == {"default", "front", "spine", "back"}
TitleTargets == {"default", "spine", "back"}

\* f"system_logo_{target}" and f"title_logo_{target}"
LogoKey(family, target) ==
  CASE family = "system" /\ target = "default" -> "system_logo_default"
    [] family = "system" /\ target = "front" -> "system_logo_front"
    [] family = "system" /\ target = "spine" -> "system_logo_spine"
    [] family = "system" /\ target = "back" -> "system_logo_back"
    [] family = "title" /\ target = "default" -> "title_logo_default"
    [] family = "title" /\ target = "spine" -> "title_logo_spine"
    [] family = "title" /\ target = "back" -> "title_logo_back"

\* the cascade of an override is enabled (the entries of "All Sides" always are)
CascadeEnabled(family, target) ==
  \/ target = "default"
  \/ family = "system" /\ menu_state.system_override = "normal"
  \/ family = "title" /\ menu_state.title_override = "normal"

\* the image a logo loader obtains from the file dialog or from the URL
LogoSources ==
  {[source |-> "file", path |-> f] : f \in Files \cup {NoPath}}
    \cup {[source |-> "url", input |-> u] : u \in UrlInputs}

\* lines 1448-1470 and 1493-1510: "cancelled" stands for the plain returns
ObtainLogo(src) ==
  IF src.source = "file"
  THEN IF src.path = NoPath THEN Raised("cancelled", None)
       ELSE load_image_from_file(src.path, "file")
  ELSE IF src.input.url # "http" THEN Raised("cancelled", None)
       ELSE FetchImage(src.input, "url", TRUE)

\* lines 1472-1483 and 1512-1523: clear the overrides for a new default,
\* assign, refresh the menus, update the preview
StoreLogo(fn, family, target, img) ==
  LET key == LogoKey(family, target)
      a0 == IF target = "default" THEN ClearOverrides(assets, key) ELSE assets
      a1 == [a0 EXCEPT ![key] = img]
      m1 == update_override_states(a1, menu_state)
  IN  \E st \in {UpdatePreview(a1)} :
        /\ assets' = st.a
        /\ rendered' = RenderResult(st)
        /\ call' = Handled(fn, key, key, st.exc, IF st.exc # "" THEN "error" ELSE "")
        /\ menu_state' = IF family = "title"
                         THEN update_search_menu_states(a1, config_data, m1) ELSE m1
        /\ UNCHANGED poster_orientation

LoadLogo(fn, family, target, src) ==
  /\ MainWindow
  /\ CascadeEnabled(family, target)
  /\ ops' = ops + 1
  /\ LET key == LogoKey(family, target)
         r == ObtainLogo(src)
     IN  IF target # "default" /\ ~IsImage(assets[LogoKey(family, "default")])
         THEN NothingStored(fn, key, "", "")
         ELSE IF r.exc = "cancelled" THEN NothingStored(fn, key, "", "")
         ELSE IF r.exc # "" THEN NothingStored(fn, key, r.exc, "error")
         ELSE StoreLogo(fn, family, target, r.ret)
  /\ UNCHANGED <<crop_mode_var, crop_offset_var, colors, nfc_logo_colors, nfc_logos,
                 config_data, win>>

load_system_logo(target, src) == LoadLogo("load_system_logo", "system", target, src)

load_title_logo(target, src) == LoadLogo("load_title_logo", "title", target, src)

\* -- search_system_logo_folder(target), lines 1590-1637
\* what the folder check, the query dialog and the scan yield: the folder is
\* gone, the dialog is cancelled, or `found` files match of which `labels`
\* can be opened for a thumbnail (show_local_logo_grid, lines 1680-1715)
FolderSearches ==
  {[isdir |-> FALSE], [isdir |-> TRUE, query |-> ""]}
    \cup {[isdir |-> TRUE, query |-> "q", found |-> n, labels |-> l] :
            n \in 0 .. MaxResults, l \in 0 .. MaxResults}

search_system_logo_folder(target, search) ==
  /\ MainWindow
  /\ menu_state.system_folder_search = "normal"
  /\ CascadeEnabled("system", target)
  /\ ops' = ops + 1
  /\ LET key == LogoKey("system", target)
     IN  IF config_data.system_logo_dir = "" \/ ~search.isdir
         THEN /\ call' = Handled("search_system_logo_folder", key, "", "", "error")
              /\ win' = win
         ELSE IF search.query = ""
         THEN /\ call' = Handled("search_system_logo_folder", key, "", "", "")
              /\ win' = win
         ELSE IF search.found = 0
         THEN /\ search.labels = 0
              /\ call' = Handled("search_system_logo_folder", key, "", "", "info")
              /\ win' = win
         ELSE /\ search.labels <= search.found
              /\ call' = Handled("search_system_logo_folder", key, "", "", "")
              /\ win' = [kind |-> "logo_grid", key |-> key, pending |-> 0,
                         labels |-> search.labels]
  /\ UNCHANGED <<assets, rendered, menu_state, poster_orientation, crop_mode_var,
                 crop_offset_var, colors, nfc_logo_colors, nfc_logos, config_data>>

\* -- show_local_logo_grid.select_image, lines 1689-1704: an exception leaves
\* the handler before win.destroy() and is reported by Tk, not by a message box
select_local_logo(file) ==
  /\ win.kind = "logo_grid"
  /\ win.labels > 0
  /\ LET key == win.key
         r == OpenConverted(file, "folder")
         a0 == IF key = "system_logo_default" THEN ClearOverrides(assets, key) ELSE assets
         a1 == [a0 EXCEPT ![key] = r.ret]
     IN  IF r.exc # ""
         THEN /\ call' = Handled("show_local_logo_grid.select_image", key, "", r.exc, "")
              /\ UNCHANGED <<assets, rendered, menu_state, win>>
         ELSE \E st \in {UpdatePreview(a1)} :
                /\ assets' = st.a
                /\ rendered' = RenderResult(st)
                /\ menu_state' = update_override_states(a1, menu_state)
                /\ call' = Handled("show_local_logo_grid.select_image", key, key, st.exc, "")
                /\ win' = IF st.exc = "" THEN NoWindow ELSE win
  /\ UNCHANGED <<poster_orientation, crop_mode_var, crop_offset_var, colors,
                 nfc_logo_colors, nfc_logos, config_data, ops>>

\* -- open_search_window(asset_key), lines 1792-1870
SearchKeys == {"poster", "title_logo_default", "title_logo_spine", "title_logo_back"}

SearchEnabled(asset_key) ==
  CASE asset_key = "poster" -> menu_state.poster_search = "normal"
    [] asset_key = "title_logo_default" -> menu_state.title_all_search = "normal"
    [] OTHER -> /\ menu_state.title_override = "normal"
                /\ menu_state.title_override_search = "normal"

open_search_window(asset_key) ==
  /\ MainWindow
  /\ SearchEnabled(asset_key)
  /\ ops' = ops + 1
  /\ IF ~has_any_api(config_data)
     THEN /\ call' = Handled("open_search_window", asset_key, "", "", "error")
          /\ win' = win
     ELSE /\ call' = Handled("open_search_window", asset_key, "", "", "")
          /\ win' = [kind |-> "search", key |-> asset_key, pending |-> 0, labels |-> 0]
  /\ UNCHANGED <<assets, rendered, menu_state, poster_orientation, crop_mode_var,
                 crop_offset_var, colors, nfc_logo_colors, nfc_logos, config_data>>

\* perform_search, lines 1846-1867: an empty query, no source ticked, no title
\* found, or some titles found
SearchOutcomes == {"no query", "no source", "no titles", "titles"}

perform_search(outcome) ==
  /\ win.kind = "search"
  /\ call' = Handled("perform_search", win.key, "", "",
                     CASE outcome = "no source" -> "error"
                       [] outcome = "no titles" -> "info"
                       [] OTHER -> "")
  /\ win' = IF outcome = "titles" THEN [win EXCEPT !.kind = "titles"] ELSE win
  /\ UNCHANGED <<assets, rendered, menu_state, poster_orientation, crop_mode_var,
                 crop_offset_var, colors, nfc_logo_colors, nfc_logos, config_data, ops>>

\* show_title_list_window.on_select, lines 1958-1986, and show_poster_grid,
\* lines 2103-2226: the title's image URLs are fetched (none on failure) and
\* the grid opens; its thread has `urls` thumbnails to load
on_select(selected, urls) ==
  /\ win.kind = "titles"
  /\ call' = Handled("on_select", win.key, "", "", "")
  /\ win' = IF selected
            THEN [kind |-> "poster_grid", key |-> win.key, pending |-> urls, labels |-> 0]
            ELSE win
  /\ UNCHANGED <<assets, rendered, menu_state, poster_orientation, crop_mode_var,
                 crop_offset_var, colors, nfc_logo_colors, nfc_logos, config_data, ops>>

\* load_images, lines 2150-2224: one round of the thread's loop and the
\* create_label it schedules; a thumbnail that cannot be loaded is skipped
load_images(loaded) ==
  /\ win.kind = "poster_grid"
  /\ win.pending > 0
  /\ call' = Handled("load_images", win.key, "", "", "")
  /\ win' = [win EXCEPT !.pending = @ - 1,
                        !.labels = IF loaded THEN @ + 1 ELSE @]
  /\ UNCHANGED <<assets, rendered, menu_state, poster_orientation, crop_mode_var,
                 crop_offset_var, colors, nfc_logo_colors, nfc_logos, config_data, ops>>

\* -- show_poster_grid.select_image, lines 2188-2208
select_image(response) ==
  /\ win.kind = "poster_grid"
  /\ win.labels > 0
  /\ LET key == win.key
         r == FetchImage([url |-> "http", response |-> response], "catalog", TRUE)
         a1 == [assets EXCEPT ![key] = r.ret]
         a2 == IF key = "title_logo_default" THEN ClearOverrides(a1, key) ELSE a1
         m1 == IF key = "title_logo_default"
               THEN update_search_menu_states(a2, config_data,
                                              update_override_states(a2, menu_state))
               ELSE menu_state
     IN  IF r.exc # ""
         THEN /\ call' = Handled("show_poster_grid.select_image", key, "", r.exc, "")
              /\ UNCHANGED <<assets, rendered, menu_state, poster_orientation, win>>
         ELSE \E st \in {UpdatePreview(a2)} :
                /\ assets' = st.a
                /\ rendered' = RenderResult(st)
                /\ menu_state' = IF key = "poster" THEN update_crop_visibility(a2, m1) ELSE m1
                /\ poster_orientation' =
                     IF key = "poster" THEN update_poster_orientation(a2, poster_orientation)
                     ELSE poster_orientation
                /\ call' = Handled("show_poster_grid.select_image", key, key, st.exc, "")
                /\ win' = IF st.exc = "" THEN NoWindow ELSE win
  /\ UNCHANGED <<crop_mode_var, crop_offset_var, colors, nfc_logo_colors, nfc_logos,
                 config_data, ops>>

\* the window manager's close button: win.destroy()
close_window ==
  /\ win # NoWindow
  /\ win' = NoWindow
  /\ call' = Handled("close_window", win.key, "", "", "")
  /\ UNCHANGED <<assets, rendered, menu_state, poster_orientation, crop_mode_var,
                 crop_offset_var, colors, nfc_logo_colors, nfc_logos, config_data, ops>>

\* CassetteApp.__init__, lines 161-226: the fields, the menus and the first preview
Init ==
  /\ InitFields
  /\ nfc_logos = NfcLogosOfSize(<<12 * DimStep, 4 * DimStep>>)
  /\ rendered = RenderResult(RenderSteps(EmptyAssets, "center", 0, DefaultColors,
                                         DefaultNfcLogo, nfc_logos))
  /\ call = NoCall

Next ==
  \/ \E key \in PlainKeys, path \in Files \cup {NoPath} : load_asset_file(key, path)
  \/ \E key \in PlainKeys, input \in UrlInputs : load_asset_url(key, input)
  \/ \E target \in SystemTargets, src \in LogoSources : load_system_logo(target, src)
  \/ \E target \in TitleTargets, src \in LogoSources : load_title_logo(target, src)
  \/ \E target \in SystemTargets, search \in FolderSearches :
       search_system_logo_folder(target, search)
  \/ \E file \in Files : select_local_logo(file)
  \/ \E asset_key \in SearchKeys : open_search_window(asset_key)
  \/ \E outcome \in SearchOutcomes : perform_search(outcome)
  \/ \E selected \in BOOLEAN, urls \in 0 .. MaxResults : on_select(selected, urls)
  \/ \E loaded \in BOOLEAN : load_images(loaded)
  \/ \E response \in UrlFiles \cup {RequestFailed} : select_image(response)
  \/ close_window

Spec == Init /\ [][Next]_vars

\* ------------------------------------------------------------------------
\* Properties of the asset slots
\* ------------------------------------------------------------------------
DefaultKeys == {"title_logo_default", "system_logo_default"}

\* C1: after every operation that stored a new image in a default logo slot
\* (load from file, load from URL, folder-search selection, catalog-search
\* selection) every override slot of that logo family is empty, whatever the
\* overrides held before.
C1_NewDefaultClearsOverrides ==
  \A d \in DefaultKeys :
    call.fn # "" /\ call.stored = d => \A k \in OverridesOf(d) : assets[k] = None

\* a new system logo default has been stored while an override was filled
C1_Witness ==
  /\ call.fn = "load_system_logo"
  /\ call.stored = "system_logo_default"
  /\ call.had_override
  /\ IsImage(assets["system_logo_default"])
  /\ \A k \in OverridesOf("system_logo_default") : assets[k] = None

\* C2: in every state reachable from the empty asset bundle by the operations
\* the menus allow, a filled title-logo or system-logo override slot implies
\* that the default slot of the same family is filled.
C2_OverrideImpliesDefault ==
  \A k \in OverrideKeys : IsImage(assets[k]) => IsImage(assets[DefaultKey(k)])

C2_Witness ==
  /\ call.fn = "load_system_logo"
  /\ IsImage(assets["system_logo_spine"])
  /\ IsImage(assets["system_logo_default"])
  /\ call.stored = "system_logo_spine"

\* C11: whenever a poster is held, the stored poster_orientation is
\* "landscape" exactly when the poster is wider than tall and "portrait"
\* otherwise: the axis the crop labels name is the axis crop_poster crops.
C11_OrientationNamesPosterAxis ==
  IsImage(assets["poster"]) =>
    poster_orientation =
      (IF assets["poster"].w > assets["poster"].h THEN "landscape" ELSE "portrait")

\* C25: in every state after the UI is built and after every asset
\* operation, the override cascade of the title-logo menu is enabled exactly
\* when title_logo_default is filled and the override cascade of the
\* system-logo menu exactly when system_logo_default is filled.
C25_CascadeFollowsDefault ==
  /\ menu_state.title_override = "normal" <=> IsImage(assets["title_logo_default"])
  /\ menu_state.system_override = "normal" <=> IsImage(assets["system_logo_default"])
  /\ menu_state.title_override \in {"normal", "disabled"}
  /\ menu_state.system_override \in {"normal", "disabled"}

\* a title logo default has been loaded, which enabled the title cascade,
\* while the system cascade is disabled for want of a system logo default
C25_Witness ==
  /\ call.fn = "load_title_logo"
  /\ call.stored = "title_logo_default"
  /\ IsImage(assets["title_logo_default"])
  /\ menu_state.title_override = "normal"
  /\ ~IsImage(assets["system_logo_default"])
  /\ menu_state.system_override = "disabled"

LoadOperations ==
  {"load_asset_file", "load_asset_url", "load_system_logo", "load_title_logo"}

\* C3: whenever decoding or fetching the image fails in a load operation
\* (load_asset_file, load_asset_url, load_system_logo, load_title_logo), an
\* error message is reported and every asset slot, the override slots of the
\* targeted logo family included, holds the same value as before the operation.
C3_FailedLoadChangesNothing ==
  [][ops' # ops /\ call'.fn \in LoadOperations /\ call'.exc # ""
       => call'.shown = "error" /\ assets' = assets]_vars

\* a line holding a single word: no blank in it
IsSingleWord(line) == \A i \in 1 .. Len(line) : line[i] # " "

\* the first word of a line
FirstWord(line) == Head(split(line, " "))

\* C19: in the word wrap, for every paragraph and box width, every line that
\* holds more than one word is at most as wide as the box, so a line is wider
\* than the box only when it is a single word wider than the box; and a line
\* is followed by another line of its paragraph only when appending that
\* line's first word, after a blank, would have exceeded the box width.
C19_GreedyWrap ==
  call.fn = "layout" =>
    \A p \in 1 .. Len(call.out.groups) :
      LET wrapped == call.out.groups[p]
      IN  /\ \A k \in 1 .. Len(wrapped) :
               getlength(call.font, wrapped[k]) > call.box[1] => IsSingleWord(wrapped[k])
          /\ \A k \in 1 .. Len(wrapped) - 1 :
               getlength(call.font, wrapped[k] \o <<" ">> \o FirstWord(wrapped[k + 1]))
                 > call.box[1]

\* "A AA" in a box three wide: the line "A" is closed because "A AA" does not
\* fit, and the single word "AA" is wider than the box
C19_Witness ==
  /\ call.fn = "layout"
  /\ call.text = <<"A", " ", "A", "A">>
  /\ call.box[1] = 3
  /\ call.out.lines = << <<"A">>, <<"A", "A">> >>
  /\ getlength(call.font, <<"A", "A">>) > call.box[1]

\* C15: in crop_poster, for a cover wider than tall mode "top" gives left = 0
\* and mode "bottom" gives left = new_w - target_w, with top = (new_h -
\* target_h) // 2; for any other cover mode "top" gives top = 0 and mode
\* "bottom" gives top = new_h - target_h, with left = (new_w - target_w) // 2.
C15_EdgeModes ==
  call.fn = "crop_poster" /\ call.out.exc = "" /\ crop_mode_var \in {"top", "bottom"} =>
    IF call.img.w > call.img.h
    THEN /\ call.out.left
              = (IF crop_mode_var = "top" THEN 0 ELSE call.out.new_w - call.box[1])
         /\ call.out.top = (call.out.new_h - call.box[2]) \div 2
    ELSE /\ call.out.top
              = (IF crop_mode_var = "top" THEN 0 ELSE call.out.new_h - call.box[2])
         /\ call.out.left = (call.out.new_w - call.box[1]) \div 2

\* a landscape cover cropped at its right edge, the scaled image being wider
\* than the box
C15_Witness ==
  /\ call.fn = "crop_poster" /\ call.out.exc = ""
  /\ crop_mode_var = "bottom"
  /\ call.img.w > call.img.h
  /\ call.out.new_w > call.box[1]
  /\ call.out.left = call.out.new_w - call.box[1]
  /\ call.out.top = 0

\* C16: in manual crop mode, for every cover and slider value v, on each axis
\* along which the scaled cover exceeds the target box the crop origin equals
\* floor(overflow * v / 1000), overflow being the excess on that axis, and the
\* origin lies in [0, overflow].
C16_ManualOriginOnOverflowAxis ==
  call.fn = "crop_poster" /\ call.out.exc = "" /\ crop_mode_var = "manual" =>
    /\ call.out.new_w > call.box[1] =>
         /\ call.out.left = ((call.out.new_w - call.box[1]) * crop_offset_var) \div SLIDER_MAX
         /\ call.out.left \in 0 .. (call.out.new_w - call.box[1])
    /\ call.out.new_h > call.box[2] =>
         /\ call.out.top = ((call.out.new_h - call.box[2]) * crop_offset_var) \div SLIDER_MAX
         /\ call.out.top \in 0 .. (call.out.new_h - call.box[2])

\* the pastes of render that draw the element elem
PastesOf(elem) == {i \in DOMAIN rendered.pastes : rendered.pastes[i].elem = elem}

\* C13: whenever render returns a raster, each of the system logo on the
\* front, the spine and the back and the title logo on the spine and the back
\* is drawn once from the panel's override slot when that slot is filled, once
\* from the family default when only the default is filled, and is left out
\* only when both slots are empty.
C13_OverrideElseDefault ==
  rendered.exc = "" =>
    \A k \in OverrideKeys :
      IF IsImage(assets[k])
      THEN Cardinality(PastesOf(k)) = 1 /\ \A i \in PastesOf(k) : rendered.pastes[i].src = k
      ELSE IF IsImage(assets[DefaultKey(k)])
      THEN /\ Cardinality(PastesOf(k)) = 1
           /\ \A i \in PastesOf(k) : rendered.pastes[i].src = DefaultKey(k)
      ELSE PastesOf(k) = {}

\* a raster whose front system logo comes from the override while both slots
\* are filled, and whose back title logo and spine system logo come from the
\* family defaults because their override slots are empty
C13_Witness ==
  /\ rendered.exc = ""
  /\ IsImage(assets["system_logo_front"]) /\ IsImage(assets["system_logo_default"])
  /\ \E i \in PastesOf("system_logo_front") : rendered.pastes[i].src = "system_logo_front"
  /\ ~IsImage(assets["title_logo_back"]) /\ IsImage(assets["title_logo_default"])
  /\ \E i \in PastesOf("title_logo_back") : rendered.pastes[i].src = "title_logo_default"
  /\ ~IsImage(assets["system_logo_spine"])
  /\ \E i \in PastesOf("system_logo_spine") : rendered.pastes[i].src = "system_logo_default"

\* the height of the drawn element elem plus BACK_GAP, 0 if it is not drawn
Advance(elem) ==
  IF PastesOf(elem) = {} THEN 0
  ELSE rendered.pastes[CHOOSE i \in PastesOf(elem) : TRUE].h + BACK_GAP

\* C14: whenever render returns a raster, the back title logo is drawn exactly
\* when its override or default is filled, the screenshot exactly when its slot
\* is filled and the summary box exactly when the summary is not empty; the
\* first of them is at y = PADDING, each later one at PADDING plus (height +
\* BACK_GAP) of the drawn ones before it in the order title logo, screenshot,
\* summary, the screenshot has its fitted height, and the cursor ends at
\* PADDING plus the advances of the drawn elements: an absent element adds
\* nothing.
C14_BackCursor ==
  rendered.exc = "" =>
    /\ PastesOf("title_logo_back") # {}
         <=> IsImage(assets[Effective(assets, "title_logo_back", "title_logo_default")])
    /\ PastesOf("screenshot") # {} <=> IsImage(assets["screenshot"])
    /\ PastesOf("summary") # {} <=> assets["summary"] # <<>>
    /\ \A i \in PastesOf("title_logo_back") : rendered.pastes[i].y = PADDING
    /\ \A i \in PastesOf("screenshot") :
         /\ rendered.pastes[i].y = PADDING + Advance("title_logo_back")
         /\ rendered.pastes[i].h
              = fit_image(assets["screenshot"], SCREENSHOT_MAX[1], SCREENSHOT_MAX[2]).ret.h
    /\ \A i \in PastesOf("summary") :
         rendered.pastes[i].y = PADDING + Advance("title_logo_back") + Advance("screenshot")
    /\ rendered.y = PADDING + Advance("title_logo_back") + Advance("screenshot")
                      + Advance("summary")

\* a raster without back title logo whose screenshot is at PADDING and whose
\* summary box is one screenshot height and one gap below it
C14_Witness ==
  /\ rendered.exc = ""
  /\ PastesOf("title_logo_back") = {}
  /\ \E i \in PastesOf("screenshot"), j \in PastesOf("summary") :
       /\ rendered.pastes[i].y = PADDING
       /\ rendered.pastes[i].h > 0
       /\ rendered.pastes[j].y = PADDING + rendered.pastes[i].h + BACK_GAP
  /\ rendered.y > PADDING + Advance("screenshot")

\* the room kept free at the bottom of the back: margin, mark and gap, and the
\* back system logo and a gap when that logo is drawn
BottomReserved ==
  NFC_MARGIN + Advance("nfc_back") + Advance("system_logo_back")

\* the top of the upper of the back mark and the back system logo
BottomStackTop ==
  IF PastesOf("system_logo_back") # {}
  THEN rendered.pastes[CHOOSE i \in PastesOf("system_logo_back") : TRUE].y
  ELSE rendered.pastes[CHOOSE i \in PastesOf("nfc_back") : TRUE].y

\* C17: whenever render returns a raster with a summary, the text box is
\* pasted at the cursor left by the title logo and the screenshot, its height
\* is CARD_H - y - (NFC_MARGIN + mark height + BACK_GAP, plus system logo
\* height + BACK_GAP when a back system logo is drawn), that height is
\* strictly positive, and the box ends exactly BACK_GAP above the top of the
\* upper of the back mark and the back system logo.
C17_TextBoxHeight ==
  rendered.exc = "" =>
    \A i \in PastesOf("summary") :
      /\ rendered.pastes[i].y = PADDING + Advance("title_logo_back") + Advance("screenshot")
      /\ rendered.pastes[i].h = CARD_H - rendered.pastes[i].y - BottomReserved
      /\ rendered.pastes[i].h > 0
      /\ rendered.pastes[i].y + rendered.pastes[i].h = BottomStackTop - BACK_GAP

\* a raster with title logo, screenshot, summary and back system logo
C17_Witness ==
  /\ rendered.exc = ""
  /\ PastesOf("title_logo_back") # {} /\ PastesOf("screenshot") # {}
  /\ PastesOf("system_logo_back") # {}
  /\ \E i \in PastesOf("summary") :
       /\ rendered.pastes[i].h > 0
       /\ rendered.pastes[i].y > PADDING
       /\ rendered.pastes[i].y + rendered.pastes[i].h + BACK_GAP = BottomStackTop

\* C18: whenever render returns a raster holding both the summary box and the
\* original cover thumbnail, the vertical span [y, y + height) of the text box
\* and the vertical span [orig_y, orig_y + height) of the thumbnail do not
\* intersect.
C18_TextClearOfThumbnail ==
  rendered.exc = "" =>
    \A i \in PastesOf("summary"), j \in PastesOf("original_cover_back") :
      \/ rendered.pastes[i].y + rendered.pastes[i].h <= rendered.pastes[j].y
      \/ rendered.pastes[j].y + rendered.pastes[j].h <= rendered.pastes[i].y

\* the elements anchored at the bottom of the back
BottomElements == {"nfc_back", "system_logo_back", "original_cover_back"}

\* the rectangles of two pastes share no pixel
Disjoint(p, q) ==
  \/ p.x + p.w <= q.x \/ q.x + q.w <= p.x
  \/ p.y + p.h <= q.y \/ q.y + q.h <= p.y

\* the rectangle of a paste lies inside the canvas
InsideCanvas(p) ==
  p.x >= 0 /\ p.y >= 0 /\ p.x + p.w <= rendered.w /\ p.y + p.h <= rendered.h

\* C20: whenever render returns a raster, the back mark is drawn once at
\* y = CARD_H - mark height - NFC_MARGIN; the back system logo, drawn when its
\* override or default is filled, ends exactly BACK_GAP above the mark's top;
\* the original cover, drawn when its slot is filled, ends exactly BACK_GAP
\* above the system logo's top if that logo is drawn and above the mark's top
\* otherwise; these rectangles are pairwise disjoint and inside the canvas.
C20_BottomStack ==
  rendered.exc = "" =>
    /\ Cardinality(PastesOf("nfc_back")) = 1
    /\ PastesOf("system_logo_back") # {}
         <=> IsImage(assets[Effective(assets, "system_logo_back", "system_logo_default")])
    /\ PastesOf("original_cover_back") # {} <=> IsImage(assets["original_cover_back"])
    /\ \A m \in PastesOf("nfc_back") :
         /\ rendered.pastes[m].y = CARD_H - rendered.pastes[m].h - NFC_MARGIN
         /\ \A s \in PastesOf("system_logo_back") :
              rendered.pastes[s].y + rendered.pastes[s].h = rendered.pastes[m].y - BACK_GAP
         /\ \A o \in PastesOf("original_cover_back") :
              rendered.pastes[o].y + rendered.pastes[o].h = BottomStackTop - BACK_GAP
    /\ \A e \in BottomElements : \A i \in PastesOf(e) :
         /\ InsideCanvas(rendered.pastes[i])
         /\ \A f \in BottomElements : \A j \in PastesOf(f) :
              i # j => Disjoint(rendered.pastes[i], rendered.pastes[j])

\* a raster with the mark, the system logo and the original cover stacked at
\* the bottom of the back, each of positive area
C20_Witness ==
  /\ rendered.exc = ""
  /\ \E m \in PastesOf("nfc_back"), s \in PastesOf("system_logo_back"),
        o \in PastesOf("original_cover_back") :
       /\ rendered.pastes[o].h > 0 /\ rendered.pastes[s].h > 0 /\ rendered.pastes[m].h > 0
       /\ rendered.pastes[o].y + rendered.pastes[o].h + BACK_GAP = rendered.pastes[s].y
       /\ rendered.pastes[s].y + rendered.pastes[s].h + BACK_GAP = rendered.pastes[m].y
       /\ rendered.pastes[m].y + rendered.pastes[m].h + NFC_MARGIN = CARD_H

\* C21: whenever render returns a raster with a summary, the text box has the
\* width and the left edge x = (BACK_W - screenshot width) // 2 of the drawn
\* screenshot, whose width is the fitted one, when a screenshot is present;
\* without a screenshot it has width BACK_W - 2 * PADDING and left edge PADDING.
C21_TextBoxUnderScreenshot ==
  rendered.exc = "" =>
    \A i \in PastesOf("summary") :
      IF IsImage(assets["screenshot"])
      THEN /\ PastesOf("screenshot") # {}
           /\ \A j \in PastesOf("screenshot") :
                /\ rendered.pastes[j].w
                     = fit_image(assets["screenshot"], SCREENSHOT_MAX[1], SCREENSHOT_MAX[2]).ret.w
                /\ rendered.pastes[j].x = (BACK_W - rendered.pastes[j].w) \div 2
                /\ rendered.pastes[i].w = rendered.pastes[j].w
                /\ rendered.pastes[i].x = rendered.pastes[j].x
      ELSE /\ rendered.pastes[i].w = BACK_W - 2 * PADDING
           /\ rendered.pastes[i].x = PADDING

\* a raster whose summary box sits under a screenshot narrower than the
\* content width of the back
C21_Witness ==
  /\ rendered.exc = ""
  /\ \E i \in PastesOf("summary"), j \in PastesOf("screenshot") :
       /\ rendered.pastes[j].w < BACK_W - 2 * PADDING
       /\ rendered.pastes[i].w = rendered.pastes[j].w
       /\ rendered.pastes[i].x = rendered.pastes[j].x
       /\ rendered.pastes[i].x > PADDING

\* the size of img rotated by 90 degrees with expansion and then fitted to box
RotatedThenFitted(img, box) ==
  [w |-> fit_image(rotate90(img).ret, box[1], box[2]).ret.w,
   h |-> fit_image(rotate90(img).ret, box[1], box[2]).ret.h]

\* C22: whenever render returns a raster, each spine element (system logo,
\* title logo, decorative mark) has the size of its source image first rotated
\* by 90 degrees with expansion and only then shrink-fitted into its box; none
\* is fitted before it is rotated.
C22_SpineRotatedThenFitted ==
  rendered.exc = "" =>
    /\ \A i \in PastesOf("system_logo_spine") :
         [w |-> rendered.pastes[i].w, h |-> rendered.pastes[i].h]
           = RotatedThenFitted(assets[rendered.pastes[i].src], SYSTEM_LOGO_SPINE_MAX)
    /\ \A i \in PastesOf("title_logo_spine") :
         [w |-> rendered.pastes[i].w, h |-> rendered.pastes[i].h]
           = RotatedThenFitted(assets[rendered.pastes[i].src], TITLE_LOGO_SPINE_MAX)
    /\ \A i \in PastesOf("nfc_spine") :
         [w |-> rendered.pastes[i].w, h |-> rendered.pastes[i].h]
           = RotatedThenFitted(nfc_logos[rendered.pastes[i].src], NFC_SPINE_MAX)

\* ImageDraw.rectangle((x0, y0, x1, y1), fill): both end coordinates are drawn
Covers(f, x, y) == f.x0 <= x /\ x <= f.x1 /\ f.y0 <= y /\ y <= f.y1

\* the colour of pixel (x, y) after the flat fills: that of the last fill
\* covering it (the first fill is the background of the new image)
FillColor(x, y) ==
  rendered.fills[CHOOSE i \in DOMAIN rendered.fills :
                   /\ Covers(rendered.fills[i], x, y)
                   /\ \A j \in DOMAIN rendered.fills :
                        j > i => ~Covers(rendered.fills[j], x, y)].color

\* the colour of the region pixel (x, y) belongs to
RegionColor(x, y) ==
  IF x >= FRONT_X /\ y < BANNER_H THEN colors["banner"]
  ELSE IF BACK_W <= x /\ x < BACK_W + SPINE_W THEN colors["spine"]
  ELSE colors["back"]

\* pixel (x, y) is under a pasted image
Pasted(x, y) ==
  \E i \in DOMAIN rendered.pastes :
    /\ rendered.pastes[i].x <= x /\ x < rendered.pastes[i].x + rendered.pastes[i].w
    /\ rendered.pastes[i].y <= y /\ y < rendered.pastes[i].y + rendered.pastes[i].h

\* the rows and the columns at the borders of the regions
BorderRows == {0, BANNER_H - 1, BANNER_H, BANNER_H + 1, CARD_H - 1}
BorderColumns == {0, BACK_W - 1, BACK_W, FRONT_X - 1, FRONT_X, FRONT_X + 1, CARD_W - 1}

\* C23: in a render of the empty asset bundle, every pixel outside the marks,
\* on the rows and columns at the borders of the regions, has the colour of
\* its region: spine colour exactly for BACK_W <= x < BACK_W + SPINE_W, banner
\* colour exactly for x >= FRONT_X and y < BANNER_H, back colour elsewhere; no
\* fill colours a pixel of the front region or of the row below the banner.
C23_FillsStayInRegion ==
  rendered.exc = "" /\ assets = EmptyAssets =>
    /\ \A x \in 0 .. CARD_W - 1, y \in BorderRows :
         ~Pasted(x, y) => FillColor(x, y) = RegionColor(x, y)
    /\ \A x \in BorderColumns, y \in 0 .. CARD_H - 1 :
         ~Pasted(x, y) => FillColor(x, y) = RegionColor(x, y)

\* ------------------------------------------------------------------------
\* The colour hex fields (_build_ui.update_color, lines 319-336)
\* A text is a sequence of characters.
\* ------------------------------------------------------------------------
\* the longest text typed into a hex field
SpineElements == {"system_logo_spine", "title_logo_spine", "nfc_spine"}

\* C30: whenever render returns a raster, each spine element pasted (system
\* logo at the top, title logo centred, mark at the bottom) lies horizontally
\* inside the spine strip, BACK_W <= x and x + w <= BACK_W + SPINE_W, and
\* vertically inside the canvas, and the rectangles of the three elements are
\* pairwise disjoint.
C30_SpineElementsApart ==
  rendered.exc = "" =>
    /\ \A e \in SpineElements : \A i \in PastesOf(e) :
         /\ BACK_W <= rendered.pastes[i].x
         /\ rendered.pastes[i].x + rendered.pastes[i].w <= BACK_W + SPINE_W
         /\ InsideCanvas(rendered.pastes[i])
    /\ \A e \in SpineElements, f \in SpineElements :
         e # f => \A i \in PastesOf(e), j \in PastesOf(f) :
                    Disjoint(rendered.pastes[i], rendered.pastes[j])

\* a raster with all three spine elements, the two logos scaled down to the
\* heights of their boxes
C30_Witness ==
  /\ rendered.exc = ""
  /\ \A e \in SpineElements : PastesOf(e) # {}
  /\ \E i \in PastesOf("system_logo_spine") :
       rendered.pastes[i].h = SYSTEM_LOGO_SPINE_MAX[2]
  /\ \E i \in PastesOf("title_logo_spine") :
       rendered.pastes[i].h = TITLE_LOGO_SPINE_MAX[2]

MaxHexLen == 7

\* the characters typed: a marker, a hexadecimal digit, a sign, a letter that
\* is no hexadecimal digit, and a blank
HexAlphabet == {"#", "f", "+", "g", " "}

HexTexts == UNION {[1 .. n -> HexAlphabet] : n \in 0 .. MaxHexLen}

LowerDigits ==
  <<"0", "1", "2", "3", "4", "5", "6", "7", "8", "9", "a", "b", "c", "d", "e", "f">>
UpperDigits ==
  <<"0", "1", "2", "3", "4", "5", "6", "7", "8", "9", "A", "B", "C", "D", "E", "F">>

IsHexDigit(c) == \E v \in 1 .. 16 : c = LowerDigits[v] \/ c = UpperDigits[v]

HexDigitValue(c) == (CHOOSE v \in 1 .. 16 : c = LowerDigits[v] \/ c = UpperDigits[v]) - 1

\* str.lstrip(chars) and str.rstrip(chars)
RECURSIVE lstrip(_, _)
lstrip(str, chars) ==
  IF str # <<>> /\ Head(str) \in chars THEN lstrip(Tail(str), chars) ELSE str

RECURSIVE rstrip(_, _)
rstrip(str, chars) ==
  IF str # <<>> /\ str[Len(str)] \in chars
  THEN rstrip(SubSeq(str, 1, Len(str) - 1), chars) ELSE str

\* str.strip()
strip(str) == rstrip(lstrip(str, Whitespace), Whitespace)

\* the value of a non-empty run of hexadecimal digits
RECURSIVE DigitsValue(_, _)
DigitsValue(digits, acc) ==
  IF digits = <<>> THEN acc
  ELSE DigitsValue(Tail(digits), 16 * acc + HexDigitValue(Head(digits)))

\* the sign and the digits of a literal without surrounding blanks
SignedDigits(lit) ==
  IF lit # <<>> /\ Head(lit) \in {"+", "-"}
  THEN [negative |-> Head(lit) = "-", digits |-> Tail(lit)]
  ELSE [negative |-> FALSE, digits |-> lit]

\* int(s, 16) for a literal split into sign and digits (the characters drawn
\* hold no base prefix and no underscore)
IntOfSigned(sd) ==
  IF sd.digits = <<>> \/ \E i \in 1 .. Len(sd.digits) : ~IsHexDigit(sd.digits[i])
  THEN [exc |-> "ValueError", val |-> 0]
  ELSE [exc |-> "", val |-> IF sd.negative THEN 0 - DigitsValue(sd.digits, 0)
                            ELSE DigitsValue(sd.digits, 0)]

\* int(s, 16): blanks around the literal are ignored and a sign is accepted
int16(s) == IntOfSigned(SignedDigits(strip(s)))

\* tuple(int(hex_color[i:i + 2], 16) for i in (0, 2, 4)), line 1259
PairsToRgb(r, g, b) ==
  IF r.exc # "" \/ g.exc # "" \/ b.exc # "" THEN [exc |-> "ValueError", rgb |-> <<>>]
  ELSE [exc |-> "", rgb |-> <<r.val, g.val, b.val>>]

\* the body of _hex_to_rgb after the lstrip, lines 1257-1259
HexBodyToRgb(h) ==
  IF Len(h) # 6 THEN [exc |-> "ValueError", rgb |-> <<>>]
  ELSE PairsToRgb(int16(SubSeq(h, 1, 2)), int16(SubSeq(h, 3, 4)), int16(SubSeq(h, 5, 6)))

\* _hex_to_rgb(hex_color), lines 1255-1259
_hex_to_rgb(hex_color) == HexBodyToRgb(lstrip(hex_color, {"#"}))

\* lines 320-323: value = var.get().strip(), with "#" put in front if missing
EntryValue(text) ==
  IF strip(text) # <<>> /\ Head(strip(text)) = "#" THEN strip(text)
  ELSE <<"#">> \o strip(text)

\* a colour specification Tk accepts for a widget background: "#" and 3, 6, 9
\* or 12 hexadecimal digits (box.config raises TclError for any other text
\* starting with "#")
TkColor(value) ==
  /\ Len(value) \in {4, 7, 10, 13}
  /\ value[1] = "#"
  /\ \A i \in 2 .. Len(value) : IsHexDigit(value[i])

\* the fields whose edits are drawn
EditedColors == {"back", "text"}

\* the application as constructed, and a text about to be written to a hex field
InitColor ==
  /\ InitFields
  /\ config_data = DefaultConfig
  /\ nfc_logos = NfcLogosOfSize(<<12 * DimStep, 4 * DimStep>>)
  /\ rendered = RenderResult(RenderSteps(EmptyAssets, "center", 0, DefaultColors,
                                         DefaultNfcLogo, nfc_logos))
  /\ call \in {[fn |-> "", k |-> k, text |-> t, exc |-> "", saved |-> FALSE,
                rendered |-> FALSE] : k \in EditedColors, t \in HexTexts}

\* lines 325-334 for the colour rgb parsed from value: the colour is stored and
\* saved, then the preview square is recoloured, then the preview is updated
StoreColor(k, value, rgb) ==
  /\ colors' = [colors EXCEPT ![k] = rgb]
  /\ config_data' = [config_data EXCEPT !.colors[k] = rgb]
  /\ IF TkColor(value)
     THEN /\ rendered' = RenderResult(RenderSteps(assets, crop_mode_var, crop_offset_var,
                                                 colors', nfc_logo_colors, nfc_logos))
          /\ call' = [call EXCEPT !.fn = "update_color", !.saved = TRUE, !.rendered = TRUE]
     ELSE /\ rendered' = rendered
          /\ call' = [call EXCEPT !.fn = "update_color", !.exc = "TclError",
                                  !.saved = TRUE]

\* update_color, lines 319-336, for the text written to the field of colour k
update_color(k, text) ==
  /\ call.fn = ""
  /\ call.k = k
  /\ call.text = text
  /\ IF _hex_to_rgb(EntryValue(text)).exc # ""
     THEN /\ call' = [call EXCEPT !.fn = "update_color", !.exc = "ValueError"]
          /\ UNCHANGED <<colors, config_data, rendered>>
     ELSE StoreColor(k, EntryValue(text), _hex_to_rgb(EntryValue(text)).rgb)
  /\ UNCHANGED <<assets, crop_mode_var, crop_offset_var, nfc_logo_colors, nfc_logos,
                 poster_orientation, menu_state, win, ops>>

NextColor == update_color(call.k, call.text)

SpecColor == InitColor /\ [][NextColor]_vars

\* an optional "#" followed by exactly six hexadecimal digits
WellFormedColor(text) ==
  /\ Len(text) \in {6, 7}
  /\ Len(text) = 7 => text[1] = "#"
  /\ \A i \in 1 .. Len(text) : i > Len(text) - 6 => IsHexDigit(text[i])

\* C12: for every text written to a colour hex field that (blanks around it
\* disregarded) is not an optional "#" followed by exactly six hexadecimal
\* digits, the edit is rejected: the colour in memory, the configuration and
\* the preview are unchanged and render is not invoked.
C12_MalformedColorRejected ==
  [][call'.fn = "update_color" /\ ~WellFormedColor(strip(call'.text))
       => /\ colors' = colors
          /\ config_data' = config_data
          /\ rendered' = rendered
          /\ ~call'.saved
          /\ ~call'.rendered]_vars

\* ------------------------------------------------------------------------
\* The catalog thumbnail window (show_poster_grid, lines 2103-2226): the
\* thumbnail thread and the main thread, one statement at a time.
\* win holds the window, the thread's position, the callbacks scheduled with
\* self.after and the last step taken; call holds the handler the main thread
\* is running.
\* ------------------------------------------------------------------------
\* the most thumbnails a title has
MaxUrls == 2

GridKeys == {"poster", "title_logo_default", "title_logo_back"}

\* the asset bundles the window is opened on
GridBundles ==
  {EmptyAssets,
   Bundle({"title_logo_default", "title_logo_spine", "title_logo_back"}, "landscape", <<>>)}

Step(thread, op) == [thread |-> thread, op |-> op]

\* show_poster_grid up to line 2226: the window exists, the thread is started
GridWindow(asset_key, urls) ==
  [kind |-> "poster_grid", key |-> asset_key, exists |-> TRUE, urls |-> urls,
   worker |-> "start", after |-> <<>>, labels |-> 0, late |-> 0,
   step |-> Step("main", "show_poster_grid")]

\* the main thread is in the event loop
Idle == [fn |-> "", pc |-> 0, img |-> None]

\* the statements of select_image after the request, lines 2189-2208, with
\* update_preview placed right after the assignment
SelectProgramPreviewFirst(asset_key) ==
  <<"fetch", "assign", "update_preview">>
    \o (IF asset_key = "title_logo_default"
        THEN <<"clear_spine", "clear_back", "update_override_states",
               "update_search_menu_states">>
        ELSE <<>>)
    \o (IF asset_key = "poster"
        THEN <<"update_crop_visibility", "update_poster_orientation">> ELSE <<>>)
    \o <<"destroy">>

\* the statements of select_image, lines 2189-2208, in their order
SelectProgram(asset_key) ==
  <<"fetch", "assign">>
    \o (IF asset_key = "title_logo_default"
        THEN <<"clear_spine", "clear_back", "update_override_states",
               "update_search_menu_states">>
        ELSE <<>>)
    \o (IF asset_key = "poster"
        THEN <<"update_crop_visibility", "update_poster_orientation">> ELSE <<>>)
    \o <<"update_preview", "destroy">>

InitGrid ==
  /\ assets \in GridBundles
  /\ crop_mode_var = "center"
  /\ crop_offset_var = 0
  /\ colors = DefaultColors
  /\ nfc_logo_colors = DefaultNfcLogo
  /\ nfc_logos = NfcLogosOfSize(<<12 * DimStep, 4 * DimStep>>)
  /\ poster_orientation = "portrait"
  /\ config_data \in {c \in ConfigFiles : has_any_api(c)}
  /\ menu_state = update_search_menu_states(assets, config_data,
                    update_override_states(assets, InitialMenus(config_data)))
  /\ rendered = RenderResult(RenderSteps(assets, "center", 0, DefaultColors,
                                         DefaultNfcLogo, nfc_logos))
  /\ win \in {GridWindow(k, n) : k \in GridKeys, n \in 1 .. MaxUrls}
  /\ ops = 0
  /\ call = Idle

\* what a step of the thumbnail thread leaves alone
WorkerFrame ==
  UNCHANGED <<assets, crop_mode_var, crop_offset_var, colors, nfc_logo_colors, nfc_logos,
              poster_orientation, config_data, menu_state, rendered, ops, call>>

\* load_images, lines 2151-2154: the loading label's removal is scheduled if
\* the window exists, else the thread returns
worker_start ==
  /\ win.worker = "start"
  /\ win' = IF win.exists
            THEN [win EXCEPT !.after = Append(@, "loading_label.destroy"),
                             !.worker = "fetch", !.step = Step("worker", "winfo_exists")]
            ELSE [win EXCEPT !.worker = "done", !.step = Step("worker", "return")]
  /\ WorkerFrame

\* load_images, lines 2160-2169 and 2223-2224: the next thumbnail is requested
\* and shrunk; a failure skips the URL; after the last URL the thread ends
worker_fetch(loaded) ==
  /\ win.worker = "fetch"
  /\ win' = IF win.urls = 0
            THEN [win EXCEPT !.worker = "done", !.step = Step("worker", "return")]
            ELSE IF loaded
            THEN [win EXCEPT !.worker = "check", !.step = Step("worker", "requests.get")]
            ELSE [win EXCEPT !.urls = @ - 1, !.step = Step("worker", "continue")]
  /\ WorkerFrame

\* load_images, lines 2218-2221: create_label is scheduled on the main thread
\* if the window exists at this moment, else the thread returns
worker_schedule ==
  /\ win.worker = "check"
  /\ win' = IF win.exists
            THEN [win EXCEPT !.after = Append(@, "create_label"), !.urls = @ - 1,
                             !.worker = "fetch", !.step = Step("worker", "after")]
            ELSE [win EXCEPT !.worker = "done", !.step = Step("worker", "return")]
  /\ WorkerFrame

\* the event loop runs the oldest callback scheduled with self.after(0, ...):
\* loading_label.destroy, or create_label (lines 2173-2216), which builds a
\* label in the window's frame whether or not the window still exists
run_after ==
  /\ call.fn = ""
  /\ win.after # <<>>
  /\ win' = [win EXCEPT !.after = Tail(@),
                        !.labels = IF Head(win.after) = "create_label" /\ win.exists
                                   THEN @ + 1 ELSE @,
                        !.late = IF Head(win.after) = "create_label" /\ ~win.exists
                                 THEN @ + 1 ELSE @,
                        !.step = Step("main", Head(win.after))]
  /\ WorkerFrame

\* WM_DELETE_WINDOW, lines 2141-2145: win.destroy()
close_grid ==
  /\ call.fn = ""
  /\ win.exists
  /\ win' = [win EXCEPT !.exists = FALSE, !.step = Step("main", "WM_DELETE_WINDOW")]
  /\ WorkerFrame

\* a click on a thumbnail label: select_image starts, lines 2188-2191; a failed
\* request or a picture that cannot be decoded ends the handler
click_label(response) ==
  /\ call.fn = ""
  /\ win.exists
  /\ win.labels > 0
  /\ \E r \in {FetchImage([url |-> "http", response |-> response], "catalog", TRUE)} :
       call' = IF r.exc # "" THEN Idle ELSE [fn |-> "select_image", pc |-> 2, img |-> r.ret]
  /\ win' = [win EXCEPT !.step = Step("main", "fetch")]
  /\ UNCHANGED <<assets, crop_mode_var, crop_offset_var, colors, nfc_logo_colors, nfc_logos,
                 poster_orientation, config_data, menu_state, rendered, ops>>

\* the assets after the statement op of select_image other than update_preview
SelectAssets(op) ==
  CASE op = "assign" -> [assets EXCEPT ![win.key] = call.img]
    [] op = "clear_spine" -> [assets EXCEPT !["title_logo_spine"] = None]
    [] op = "clear_back" -> [assets EXCEPT !["title_logo_back"] = None]
    [] OTHER -> assets

\* the menus after the statement op of select_image
SelectMenus(op) ==
  CASE op = "update_override_states" -> update_override_states(assets, menu_state)
    [] op = "update_search_menu_states" ->
         update_search_menu_states(assets, config_data, menu_state)
    [] op = "update_crop_visibility" -> update_crop_visibility(assets, menu_state)
    [] OTHER -> menu_state

\* one statement of select_image other than update_preview, lines 2193-2208
SelectStatement(op) ==
  /\ op # "update_preview"
  /\ assets' = SelectAssets(op)
  /\ menu_state' = SelectMenus(op)
  /\ poster_orientation' = IF op = "update_poster_orientation"
                           THEN update_poster_orientation(assets, poster_orientation)
                           ELSE poster_orientation
  /\ rendered' = rendered
  /\ win' = [win EXCEPT !.exists = IF op = "destroy" THEN FALSE ELSE @,
                        !.step = Step("main", op)]
  /\ call' = IF op = "destroy" THEN Idle ELSE [call EXCEPT !.pc = @ + 1]

\* self.update_preview() in select_image, line 2207; an exception ends the handler
SelectPreview(op) ==
  /\ op = "update_preview"
  /\ \E st \in {UpdatePreview(assets)} :
       /\ assets' = st.a
       /\ rendered' = RenderResult(st)
       /\ call' = IF st.exc # "" THEN Idle ELSE [call EXCEPT !.pc = @ + 1]
  /\ win' = [win EXCEPT !.step = Step("main", op)]
  /\ UNCHANGED <<menu_state, poster_orientation>>

\* the main thread runs the next statement of select_image
select_step ==
  /\ call.fn = "select_image"
  /\ \/ SelectStatement(SelectProgram(win.key)[call.pc])
     \/ SelectPreview(SelectProgram(win.key)[call.pc])
  /\ UNCHANGED <<crop_mode_var, crop_offset_var, colors, nfc_logo_colors, nfc_logos,
                 config_data, ops>>

NextGrid ==
  \/ worker_start
  \/ \E loaded \in BOOLEAN : worker_fetch(loaded)
  \/ worker_schedule
  \/ run_after
  \/ close_grid
  \/ \E response \in UrlFiles \cup {RequestFailed} : click_label(response)
  \/ select_step

SpecGrid == InitGrid /\ [][NextGrid]_vars

\* C24: every step that writes an asset slot or invokes render is a step of
\* the main thread, the thumbnail thread only fetches and schedules; and when
\* select_image's render runs, the asset update of the handler is complete:
\* the selected image is stored and, for a new title logo default, both title
\* logo overrides are cleared.
C24_AssetsAndRenderOnMainThread ==
  [][/\ win'.step.thread = "worker" =>
          /\ assets' = assets /\ rendered' = rendered
          /\ win'.step.op \in {"winfo_exists", "requests.get", "continue", "after", "return"}
     /\ assets' # assets \/ rendered' # rendered => win'.step.thread = "main"
     /\ call.fn = "select_image" /\ win'.step.op = "update_preview" =>
          /\ win'.step.thread = "main"
          /\ assets[win.key] = call.img
          /\ win.key = "title_logo_default" =>
               assets["title_logo_spine"] = None /\ assets["title_logo_back"] = None]_vars

\* select_image has rendered a new title logo default with the overrides
\* cleared while the thumbnail thread was still between two statements
C24_Witness ==
  /\ win.key = "title_logo_default"
  /\ win.step = Step("main", "update_preview")
  /\ win.worker = "check"
  /\ call.fn = "select_image"
  /\ rendered.exc = ""
  /\ assets["title_logo_default"] = call.img
  /\ assets["title_logo_spine"] = None /\ assets["title_logo_back"] = None
  /\ \E i \in PastesOf("title_logo_back") : rendered.pastes[i].src = "title_logo_default"

\* C26: under every interleaving of the thumbnail thread with the main
\* thread's close and selection events, no create_label scheduled by the
\* thread runs after the window has been destroyed.
C26_NoLabelAfterDestroy == win.late = 0

\* ------------------------------------------------------------------------
\* The configuration and its defaults (load_config, __init__, update_color,
\* open_picker, set_nfc). Dictionaries are objects on a heap, named by
\* references, so that two names of one dictionary see each other's writes.
\* call holds the heap, the references held by config_data and by
\* self.nfc_logo_colors, and the content of the configuration file;
\* config_data and nfc_logo_colors are the dictionaries those references name.
\* ------------------------------------------------------------------------
\* the most edits made in a session
MaxEdits == 2

\* the dictionaries: the two of DEFAULT_CONFIG (lines 34-45) and the two that
\* json.load, dict.copy or a dict display create at start-up
Refs == {"default_colors", "default_nfc", "loaded_colors", "loaded_nfc"}

\* the configuration file at start-up: missing, written by this version, or
\* written before the colour and mark sections existed
StartFiles == {"missing", "complete", "old"}

FileColors ==
  [back |-> <<1, 2, 3>>, spine |-> <<30, 30, 30>>, banner |-> <<0, 0, 255>>,
   text |-> <<255, 255, 255>>]

FileNfcLogo == [front |-> "black", spine |-> "white", back |-> "white"]

\* the module-level DEFAULT_CONFIG as the interpreter creates it
DeclaredHeap ==
  [r \in Refs |-> CASE r = "default_colors" -> DefaultColors
                    [] r = "default_nfc" -> DefaultNfcLogo
                    [] OTHER -> None]

\* load_config(), lines 107-112, and __init__, lines 172-197: the heap and the
\* references held by config_data["colors"], config_data["nfc_logo"] and
\* self.nfc_logo_colors. DEFAULT_CONFIG.copy() copies the outer dictionary
\* only; json.load and DEFAULT_CONFIG["colors"].copy() create new dictionaries.
Startup(file) ==
  CASE file = "missing" ->
         [heap |-> DeclaredHeap, colors_ref |-> "default_colors",
          nfc_ref |-> "default_nfc"]
    [] file = "complete" ->
         [heap |-> [DeclaredHeap EXCEPT !["loaded_colors"] = FileColors,
                                        !["loaded_nfc"] = FileNfcLogo],
          colors_ref |-> "loaded_colors", nfc_ref |-> "loaded_nfc"]
    [] OTHER ->
         [heap |-> [DeclaredHeap EXCEPT !["loaded_colors"] = DefaultColors,
                                        !["loaded_nfc"] = DefaultNfcLogo],
          colors_ref |-> "loaded_colors", nfc_ref |-> "loaded_nfc"]

\* config_data as a value: what json.dump writes
ConfigValue(heap, colors_ref, nfc_ref) ==
  [steamgriddb |-> "", tmdb |-> "", system_logo_dir |-> "",
   colors |-> heap[colors_ref], nfc_logo |-> heap[nfc_ref]]

\* "#{:02x}{:02x}{:02x}".format(*rgb), line 1253, for components in 0 .. 255
_rgb_to_hex(rgb) ==
  <<"#", LowerDigits[(rgb[1] \div 16) + 1], LowerDigits[(rgb[1] % 16) + 1],
         LowerDigits[(rgb[2] \div 16) + 1], LowerDigits[(rgb[2] % 16) + 1],
         LowerDigits[(rgb[3] \div 16) + 1], LowerDigits[(rgb[3] % 16) + 1]>>

\* the texts written to a hex field, and the colours chosen in the picker
\* (None: the dialog was cancelled)
EditTexts ==
  {<<"f", "f", "f", "f", "f", "f">>, <<"+", "f", "+", "f", "+", "f">>, <<"g", "g">>}
PickedColors == {None, <<0, 128, 255>>}

\* __init__ up to the first update_preview, lines 161-226
InitConfig ==
  /\ assets = EmptyAssets
  /\ crop_mode_var = "center"
  /\ crop_offset_var = 0
  /\ poster_orientation = "portrait"
  /\ nfc_logos = NfcLogosOfSize(<<12 * DimStep, 4 * DimStep>>)
  /\ win = NoWindow
  /\ ops = 0
  /\ \E file \in StartFiles :
       /\ call = [fn |-> "__init__", start |-> file, heap |-> Startup(file).heap,
                  colors_ref |-> Startup(file).colors_ref,
                  nfc_ref |-> Startup(file).nfc_ref,
                  saved |-> ConfigValue(Startup(file).heap, Startup(file).colors_ref,
                                        Startup(file).nfc_ref),
                  exc |-> ""]
       /\ config_data = call.saved
       /\ colors = call.heap[call.colors_ref]
       /\ nfc_logo_colors = call.heap[call.nfc_ref]
  /\ menu_state = InitialMenus(config_data)
  /\ rendered = RenderResult(RenderSteps(assets, crop_mode_var, crop_offset_var, colors,
                                         nfc_logo_colors, nfc_logos))

\* the heap with key k of the dictionary ref left as it is
HeapStoreSkipped(heap, ref, k, value) == heap

\* d[k] = value for the dictionary named by ref
HeapStore(heap, ref, k, value) == [heap EXCEPT ![ref][k] = value]

\* the state after a handler that left the heap as `heap` and the in-memory
\* colours as `cols`, saved the configuration and `previewed` or not
Edited(fn, heap, cols, exc, previewed) ==
  /\ call' = [call EXCEPT !.fn = fn, !.heap = heap, !.exc = exc,
                          !.saved = ConfigValue(heap, call.colors_ref, call.nfc_ref)]
  /\ config_data' = ConfigValue(heap, call.colors_ref, call.nfc_ref)
  /\ colors' = cols
  /\ nfc_logo_colors' = heap[call.nfc_ref]
  /\ rendered' = IF previewed
                 THEN RenderResult(RenderSteps(assets, crop_mode_var, crop_offset_var, cols,
                                               heap[call.nfc_ref], nfc_logos))
                 ELSE rendered
  /\ ops' = ops + 1
  /\ UNCHANGED <<assets, crop_mode_var, crop_offset_var, nfc_logos, poster_orientation,
                 menu_state, win>>

\* lines 326-330 and 345-351: the colour is stored in memory and in the
\* configuration, the configuration is saved, the square is recoloured and
\* the preview updated
ColorStored(fn, k, value, rgb) ==
  Edited(fn, HeapStore(call.heap, call.colors_ref, k, rgb), [colors EXCEPT ![k] = rgb],
         IF TkColor(value) THEN "" ELSE "TclError", TkColor(value))

\* update_color, lines 319-336, on the application's dictionaries
edit_color(k, text) ==
  /\ ops < MaxEdits
  /\ IF _hex_to_rgb(EntryValue(text)).exc # ""
     THEN Edited("update_color", call.heap, colors, "ValueError", FALSE)
     ELSE ColorStored("update_color", k, EntryValue(text), _hex_to_rgb(EntryValue(text)).rgb)

\* open_picker, lines 339-351; var.set(hex_value) runs update_color on the
\* text of the chosen colour, which parses back to the same colour
open_picker(k, rgb) ==
  /\ ops < MaxEdits
  /\ IF rgb = None
     THEN Edited("open_picker", call.heap, colors, "", FALSE)
     ELSE ColorStored("open_picker", k, _rgb_to_hex(rgb),
                      _hex_to_rgb(EntryValue(_rgb_to_hex(rgb))).rgb)

\* set_nfc(side, color), lines 385-389: the dictionary self.nfc_logo_colors
\* names is written, and config_data["nfc_logo"] is made to name it
set_nfc(side, color) ==
  /\ ops < MaxEdits
  /\ Edited("set_nfc", HeapStore(call.heap, call.nfc_ref, side, color), colors, "", TRUE)

NextConfig ==
  \/ \E k \in DOMAIN DefaultColors, text \in EditTexts : edit_color(k, text)
  \/ \E k \in DOMAIN DefaultColors, rgb \in PickedColors : open_picker(k, rgb)
  \/ \E side \in DOMAIN DefaultNfcLogo, color \in {"white", "black"} : set_nfc(side, color)

SpecConfig == InitConfig /\ [][NextConfig]_vars

\* C27: after any sequence of colour edits (hex entry or picker) and mark
\* selections, whatever configuration file existed at start-up, the colours
\* and the nfc_logo entry of DEFAULT_CONFIG hold their declared values.
C27_DefaultConfigUntouched ==
  /\ call.heap["default_colors"] = DefaultColors
  /\ call.heap["default_nfc"] = DefaultNfcLogo

\* C28: after start-up and after every colour edit and mark selection,
\* config_data["colors"][k] equals the in-memory colour k for back, spine,
\* banner and text, config_data["nfc_logo"] equals the per-panel mark
\* selection, and the file written holds the same values.
C28_ConfigAgreesWithMemory ==
  /\ \A k \in {"back", "spine", "banner", "text"} : config_data.colors[k] = colors[k]
  /\ config_data.nfc_logo = nfc_logo_colors
  /\ call.saved = config_data

\* a session started from a complete configuration file in which a colour
\* was typed and a mark picked, both differing from the file's values
C28_Witness ==
  /\ call.start = "complete"
  /\ ops = 2
  /\ colors["back"] = <<255, 255, 255>>
  /\ config_data.colors["back"] = <<255, 255, 255>>
  /\ nfc_logo_colors["spine"] = "black"
  /\ config_data.nfc_logo["spine"] = "black"

====
